---- MODULE Spec2Model ----
(***************************************************************************)
(* State-machine model of the stringleton symbol registry                  *)
(* (stringleton-registry/{registry,symbol,site}.rs).                       *)
(*                                                                         *)
(* A Symbol wraps a `&'static &'static str`: a reference to a memory cell  *)
(* that holds a string reference.  The model names every such cell by a    *)
(* small integer, keeps the text each cell refers to in `mem`, and derives *)
(* the cell's machine address with AddressOf.  A 64-bit integer is a pair  *)
(* of 32-bit halves [hi, lo], so that the casts `as usize` and `as u64`    *)
(* keep their width on 32-bit and on 64-bit targets.                       *)
(***************************************************************************)
EXTENDS Integers, Naturals, Sequences, FiniteSets, TLC

\* ------------------------------------------------------------------ bounds

\* Number of threads that call into the registry.
NumThreads == 2

\* Number of heap cells `Box::leak` can hand out.
MaxHeap == 2

\* Number of values the Hasher of a map keyed by Symbol yields.
NumHashes == 3

\* ------------------------------------------------------------- the program

Threads == 1..NumThreads
NoThread == 0

\* The texts the program interns or looks up.
Texts == {"a", "b"}
NoText == "<unallocated>"

\* The `&'static &'static str` references the program owns statically:
\* cell i, for i in 1..NumSites, is the literal `&$sym` of Site i; the
\* following cells are references callers pass to Symbol::new_static.
StaticText == <<"a", "b", "a", "a", "b">>
NumStatic == Len(StaticText)

\* One registration table (linkme distributed slice) per module: the Sites
\* of the module, in link order.
TABLE == << <<1, 2>>, <<3>> >>
Modules == 1..Len(TABLE)
NumSites == Len(TABLE[1]) + Len(TABLE[2])

\* The module whose table holds Site i.
ModuleOf(i) == CHOOSE m \in Modules : \E k \in 1..Len(TABLE[m]) : TABLE[m][k] = i

Sites == 1..NumSites
CallerRefs == (NumSites + 1)..NumStatic
HeapCells == (NumStatic + 1)..(NumStatic + MaxHeap)
Cells == 1..(NumStatic + MaxHeap)

\* Option<Symbol>::None.
NoSymbol == 0

VARIABLES
    ptr_width,          \* target_pointer_width of the build: 32 or 64
    debug_assertions,   \* the `debug-assertions` cargo feature
    ctor_support,       \* cfg(not(any(miri, target_arch = "wasm32")))
    mem,                \* cell -> text of the string the cell refers to
    by_string,          \* Store.by_string: text -> stored key (a cell)
    by_pointer,         \* Store.by_pointer: usize address -> SymbolStr (a cell)
    readers,            \* threads holding a RwLockReadGuard
    writer,             \* thread holding the RwLockWriteGuard, or NoThread
    pc,                 \* thread -> position in the call it is running
    arg,                \* thread -> locals of the call it is running
    inner,              \* Site.inner of every Site
    initialized,        \* Site.initialized of every Site
    ctor,               \* module -> "pending" | "running" | "done", and for
                        \* a second call "rerunning" | "done_twice"
    writes,             \* history: Site -> number of stores to Site.inner
    poisoned,           \* the poison flag of the registry's RwLock
    foreign,            \* the Store of a second Registry instance
    lastCall,           \* the call that returned in the last step, if any
    returned,           \* history: text -> Symbols ever returned for it
    REGISTRY            \* the OnceLock<Registry> static of Registry::global

vars == <<ptr_width, debug_assertions, ctor_support, mem, by_string,
          by_pointer, readers, writer, pc, arg, inner, initialized, ctor,
          writes, poisoned, foreign, lastCall, returned, REGISTRY>>

config == <<ptr_width, debug_assertions, ctor_support>>
store == <<mem, by_string, by_pointer>>
lock == <<readers, writer>>
sites == <<inner, initialized, ctor, writes>>

\* ------------------------------------------------------------- 64-bit values

\* A u64 as its two 32-bit halves.
U64(hi, lo) == [hi |-> hi, lo |-> lo]

\* `value as usize`: truncation to the pointer width of the target.
AsUsize(v) == IF ptr_width = 64 THEN v ELSE U64(0, v.lo)

\* `value as u64` of a usize: zero extension.
AsU64(u) == u

\* The address of a cell.  On a 32-bit target every address fits 32 bits;
\* on a 64-bit target the heap lies above 4 GiB.
AddressOf(c) == U64(IF ptr_width = 64 /\ c \in HeapCells THEN 1 ELSE 0, c)

\* The 64-bit values handed to get_by_address.
U64Values == {U64(hi, lo) : hi \in 0..1, lo \in 0..(NumStatic + MaxHeap)}

\* ------------------------------------------------------------------- Symbol

\* Symbol::new_unchecked: the handle over a reference.
Symbol_new_unchecked(registered_symbol) == registered_symbol

\* Symbol::inner
Symbol_inner(x) == x

\* Symbol::as_str
Symbol_as_str(x) == mem[x]

\* Symbol::as_ptr
Symbol_as_ptr(x) == AddressOf(x)

\* A to_ffi that goes through a 32-bit integer (`as u32 as u64`): the upper
\* half of a 64-bit address is lost.
Symbol_to_ffi_u32(x) == U64(0, Symbol_as_ptr(x).lo)

\* Symbol::to_ffi: `self.as_ptr().as_ptr() as usize as u64`.
Symbol_to_ffi(x) == AsU64(AsUsize(Symbol_as_ptr(x)))

\* An equality that compares what the Symbols refer to.
Symbol_eq_str(x, y) == Symbol_as_str(x) = Symbol_as_str(y)

\* impl PartialEq for Symbol
Symbol_eq(x, y) == Symbol_as_ptr(x) = Symbol_as_ptr(y)

\* A comparison of the texts instead of the addresses.
Symbol_cmp_str(x, y) ==
    IF Symbol_as_str(x) = Symbol_as_str(y) THEN "Equal"
    ELSE IF x < y THEN "Less" ELSE "Greater"

\* impl Ord for Symbol: `self.as_ptr().cmp(&other.as_ptr())`, the order of
\* the addresses.
Symbol_cmp(x, y) ==
    LET a == Symbol_as_ptr(x)
        b == Symbol_as_ptr(y)
    IN IF a = b THEN "Equal"
       ELSE IF a.hi < b.hi \/ (a.hi = b.hi /\ a.lo < b.lo) THEN "Less"
       ELSE "Greater"

\* The Hasher a map brings: a function of the words written to it, with
\* fewer values than there are addresses.
Hasher(word) == (word.hi + word.lo) % NumHashes

\* impl Hash for Symbol: `self.as_ptr().hash(state)` writes the address.
Symbol_hash(x) == Hasher(AsUsize(Symbol_as_ptr(x)))

\* HashMap<Symbol, V>::insert on a map held as a set of (key, value)
\* entries: an entry whose key has the hash of k and is equal to k gets the
\* new value and keeps its key; otherwise an entry is added.
HashMap_insert(map, k, v) ==
    LET found == {e \in map : Symbol_hash(e.key) = Symbol_hash(k)
                                  /\ Symbol_eq(e.key, k)}
    IN IF found # {}
       THEN (map \ found) \cup {[key |-> e.key, value |-> v] : e \in found}
       ELSE map \cup {[key |-> k, value |-> v]}

\* SymbolStr::address
SymbolStr_address(k) == AsUsize(AddressOf(k))

\* -------------------------------------------------------------------- Store

\* The heap cell `Box::leak(Box::new(..))` returns next: one never handed
\* out before.
FreshCell == CHOOSE c \in HeapCells :
                 /\ mem[c] = NoText
                 /\ \A d \in HeapCells : mem[d] = NoText => c <= d

HeapLeft == \E c \in HeapCells : mem[c] = NoText

\* The by_pointer entries whose SymbolStr refers to text s.
AddressEntries(s) == {a \in DOMAIN by_pointer : mem[by_pointer[a]] = s}

\* A lookup that never matches (the key is compared by address, and the
\* `&str` asked for is at no key's address).
Store_get_miss(string) == NoSymbol

\* A lookup that does not compare the text: it returns an entry of the map
\* whatever the key asked for.
Store_get_any(string) ==
    IF DOMAIN by_string # {}
    THEN Symbol_new_unchecked(by_string[CHOOSE s \in DOMAIN by_string : TRUE])
    ELSE NoSymbol

\* Store::get
Store_get(string) ==
    IF string \in DOMAIN by_string
    THEN Symbol_new_unchecked(by_string[string])
    ELSE NoSymbol

\* Store::get_by_address
Store_get_by_address(address) ==
    IF AsUsize(address) \in DOMAIN by_pointer
    THEN Symbol_new_unchecked(by_pointer[AsUsize(address)])
    ELSE NoSymbol

\* A SymbolStr::from that leaks a cell referring to an empty string instead
\* of the copy of the text.
SymbolStr_from_empty(value) ==
    [key |-> FreshCell, mem |-> [mem EXCEPT ![FreshCell] = ""]]

\* impl From<&str> for SymbolStr: `Box::leak(Box::new(&*value.to_owned().leak()))`
\* copies the text to the heap and leaks a cell that refers to the copy.
SymbolStr_from(value) ==
    [key |-> FreshCell, mem |-> [mem EXCEPT ![FreshCell] = value]]

\* A get_or_insert without the re-check under the write lock: it leaks and
\* inserts a new copy even when another thread interned the text since the
\* optimistic lookup.
Store_get_or_insert_unchecked(string) ==
    LET interned == SymbolStr_from(string)
    IN [sym |-> Symbol_new_unchecked(interned.key), via |-> "insert",
        mem |-> interned.mem,
        by_string |-> (string :> interned.key) @@ by_string,
        by_pointer |-> (SymbolStr_address(interned.key) :> interned.key)
                           @@ by_pointer]

\* Store::get_or_insert: the Symbol returned and the store it leaves.
\* `by_string.entry_ref(string)` is Occupied or Vacant; the Vacant branch
\* inserts SymbolStr::from(string) in both maps.
Store_get_or_insert(string) ==
    IF string \in DOMAIN by_string
    THEN [sym |-> Symbol_new_unchecked(by_string[string]), via |-> "recheck",
          mem |-> mem, by_string |-> by_string, by_pointer |-> by_pointer]
    ELSE LET interned == SymbolStr_from(string)
         IN [sym |-> Symbol_new_unchecked(interned.key), via |-> "insert",
             mem |-> interned.mem,
             by_string |-> (string :> interned.key) @@ by_string,
             by_pointer |-> (SymbolStr_address(interned.key) :> interned.key)
                                @@ by_pointer]

\* A get_or_insert_static that replaces the stored key by the caller's
\* reference when the text is already interned.
Store_get_or_insert_static_replace(string) ==
    [sym |-> Symbol_new_unchecked(string),
     via |-> IF mem[string] \in DOMAIN by_string THEN "recheck" ELSE "insert",
     mem |-> mem,
     by_string |-> (mem[string] :> string) @@ by_string,
     by_pointer |-> (SymbolStr_address(string) :> string)
                        @@ [a \in DOMAIN by_pointer \ AddressEntries(mem[string])
                                |-> by_pointer[a]]]

\* A get_or_insert_static that leaks a copy of the text, as get_or_insert
\* does, instead of taking the caller's reference as the key.
Store_get_or_insert_static_copy(string) == Store_get_or_insert(mem[string])

\* A get_or_insert_static whose Occupied branch returns the caller's
\* reference instead of the original key.
Store_get_or_insert_static_own(string) ==
    IF mem[string] \in DOMAIN by_string
    THEN [sym |-> Symbol_new_unchecked(string), via |-> "recheck",
          mem |-> mem, by_string |-> by_string, by_pointer |-> by_pointer]
    ELSE [sym |-> Symbol_new_unchecked(string), via |-> "insert",
          mem |-> mem,
          by_string |-> (mem[string] :> string) @@ by_string,
          by_pointer |-> (SymbolStr_address(string) :> string) @@ by_pointer]

\* A get_or_insert_static that takes the Vacant branch without looking the
\* text up: the caller's reference is inserted even when the text is
\* already interned.
Store_get_or_insert_static_unchecked(string) ==
    [sym |-> Symbol_new_unchecked(string), via |-> "insert",
     mem |-> mem,
     by_string |-> (mem[string] :> string) @@ by_string,
     by_pointer |-> (SymbolStr_address(string) :> string) @@ by_pointer]

\* Store::get_or_insert_static: `by_string.entry(SymbolStr(string))` is
\* Occupied (the original key is returned) or Vacant (the caller's reference
\* becomes the key in both maps).
Store_get_or_insert_static(string) ==
    IF mem[string] \in DOMAIN by_string
    THEN [sym |-> Symbol_new_unchecked(by_string[mem[string]]), via |-> "recheck",
          mem |-> mem, by_string |-> by_string, by_pointer |-> by_pointer]
    ELSE [sym |-> Symbol_new_unchecked(string), via |-> "insert",
          mem |-> mem,
          by_string |-> (mem[string] :> string) @@ by_string,
          by_pointer |-> (SymbolStr_address(string) :> string) @@ by_pointer]

\* The Symbols the registry holds.
Registered == {by_string[s] : s \in DOMAIN by_string}

\* RegistryReadGuard::len / RegistryWriteGuard::len
Store_len == Cardinality(DOMAIN by_string)

\* --------------------------------------------------------------- the RwLock

\* What RwLock::read and RwLock::write of std return next to the guard:
\* Err(PoisonError) once a thread has panicked while holding the write
\* guard.
LockResult == IF poisoned THEN "Err" ELSE "Ok"

\* `.unwrap()` on the LockResult: a guard only from Ok, a panic otherwise.
LockResult_unwrap(result) == result = "Ok"

\* `.unwrap_or_else(PoisonError::into_inner)` in Registry::read and
\* Registry::write: the guard is taken out of either result.
LockResult_unwrap_or_else_into_inner(result) == result \in {"Ok", "Err"}

\* static REGISTRY: OnceLock<Registry>.  state is the cell's state; value is
\* the Registry it holds (0: none; Registry::new() number n otherwise);
\* constructed counts the runs of Registry::new; handed is the history of
\* the references Registry::global() has returned.
Uninit ==
    [state |-> "uninit", value |-> 0, constructed |-> 0, handed |-> {}]

\* The cell after a first access: the state from which the registry's
\* operations are called.
Constructed ==
    [state |-> "complete", value |-> 1, constructed |-> 1, handed |-> {1}]

\* RwLock::read returns once no writer holds the lock.
CanRead == writer = NoThread

\* RwLock::write returns once nobody holds the lock.
CanWrite == writer = NoThread /\ readers = {}

NoArg == "<none>"
NoCall == [op |-> "none", arg |-> NoArg, res |-> NoSymbol, via |-> "none"]

\* The call returns `res` in this step; `via` tells where the value came
\* from: "read" (a lookup under a read guard), "recheck" (the Occupied
\* branch under the write guard), "insert" (the Vacant branch) or "slot"
\* (the load of a Site).
Returns(op, a, res, via) ==
    lastCall' = [op |-> op, arg |-> a, res |-> res, via |-> via]

\* No call returns in this step.
NoReturn == lastCall' = NoCall

\* History: `sym` was handed out for `text`.
Record(text, sym) == returned' = [returned EXCEPT ![text] = @ \cup {sym}]

\* ------------------------------------------------------------ Registry::read

\* Registry::read: the first statement, `self.read()`, of Registry::get,
\* get_by_address, get_or_insert and get_or_insert_static.  The argument of
\* the call plays no part before the lookup, so the lookup's step draws it.
Registry_read(t) ==
    /\ pc[t] = "idle"
    /\ CanRead
    /\ LockResult_unwrap_or_else_into_inner(LockResult)
    /\ readers' = readers \cup {t}
    /\ pc' = [pc EXCEPT ![t] = "read"]
    /\ NoReturn
    /\ UNCHANGED <<config, REGISTRY, poisoned, foreign, store, writer, arg, sites, returned>>

\* A get that registers the text it did not find (a lookup written with
\* the map's entry interface).
Registry_get_register(t, string) ==
    /\ pc[t] = "read"
    /\ string \in DOMAIN by_string \/ HeapLeft
    /\ readers' = readers \ {t}
    /\ pc' = [pc EXCEPT ![t] = "idle"]
    /\ Returns("get", string, Store_get(string), "read")
    /\ LET r == Store_get_or_insert(string)
       IN /\ mem' = r.mem
          /\ by_string' = r.by_string
          /\ by_pointer' = r.by_pointer
    /\ UNCHANGED <<config, REGISTRY, poisoned, foreign, writer, arg, sites, returned>>

\* Registry::get / Symbol::get: `.guard.get(string)`, then the guard is
\* dropped.
Registry_get(t, string) ==
    /\ pc[t] = "read"
    /\ readers' = readers \ {t}
    /\ pc' = [pc EXCEPT ![t] = "idle"]
    /\ Returns("get", string, Store_get(string), "read")
    /\ UNCHANGED <<config, REGISTRY, poisoned, foreign, store, writer, arg, sites, returned>>

\* Registry::get_by_address / Symbol::try_from_ffi:
\* `.get_by_address(address)`, then the guard is dropped.
Registry_get_by_address(t, address) ==
    /\ pc[t] = "read"
    /\ readers' = readers \ {t}
    /\ pc' = [pc EXCEPT ![t] = "idle"]
    /\ Returns("get_by_address", address, Store_get_by_address(address), "read")
    /\ UNCHANGED <<config, REGISTRY, poisoned, foreign, store, writer, arg, sites, returned>>

\* ----------------------------------------------------- Registry::get_or_insert

\* A get_or_insert that goes on to the write lock whatever its lookup under
\* the read lock found.
Registry_get_or_insert_check_always_write(t, string) ==
    /\ pc[t] = "read"
    /\ readers' = readers \ {t}
    /\ pc' = [pc EXCEPT ![t] = "get_or_insert_miss"]
    /\ arg' = [arg EXCEPT ![t] = string]
    /\ NoReturn
    /\ UNCHANGED returned
    /\ UNCHANGED <<config, REGISTRY, poisoned, foreign, store, writer, sites>>

\* Registry::get_or_insert / Symbol::new, the optimistic lookup
\* `read.get(string)`: return the hit, or drop the read guard.
Registry_get_or_insert_check(t, string) ==
    /\ pc[t] = "read"
    /\ readers' = readers \ {t}
    /\ LET previously_interned == Store_get(string)
       IN IF previously_interned # NoSymbol
          THEN /\ pc' = [pc EXCEPT ![t] = "idle"]
               /\ Returns("get_or_insert", string, previously_interned, "read")
               /\ Record(string, previously_interned)
               /\ UNCHANGED arg
          ELSE /\ pc' = [pc EXCEPT ![t] = "get_or_insert_miss"]
               /\ arg' = [arg EXCEPT ![t] = string]
               /\ NoReturn
               /\ UNCHANGED returned
    /\ UNCHANGED <<config, REGISTRY, poisoned, foreign, store, writer, sites>>

\* A get_or_insert that calls read() where it should call write(): it goes
\* on to insert as one of the readers.
Registry_get_or_insert_write_as_read(t) ==
    /\ pc[t] = "get_or_insert_miss"
    /\ CanRead
    /\ readers' = readers \cup {t}
    /\ pc' = [pc EXCEPT ![t] = "get_or_insert_write"]
    /\ NoReturn
    /\ UNCHANGED <<config, REGISTRY, poisoned, foreign, store, writer, arg, sites, returned>>

\* `let mut write = self.write();`
Registry_get_or_insert_write(t) ==
    /\ pc[t] = "get_or_insert_miss"
    /\ CanWrite
    /\ LockResult_unwrap_or_else_into_inner(LockResult)
    /\ writer' = t
    /\ pc' = [pc EXCEPT ![t] = "get_or_insert_write"]
    /\ NoReturn
    /\ UNCHANGED <<config, REGISTRY, poisoned, foreign, store, readers, arg, sites, returned>>

\* A get_or_insert that returns without dropping its write guard (the guard
\* is leaked, as by mem::forget).
Registry_get_or_insert_insert_keep(t) ==
    /\ pc[t] = "get_or_insert_write"
    /\ arg[t] \in DOMAIN by_string \/ HeapLeft
    /\ LET r == Store_get_or_insert(arg[t])
       IN /\ mem' = r.mem
          /\ by_string' = r.by_string
          /\ by_pointer' = r.by_pointer
          /\ Returns("get_or_insert", arg[t], r.sym, r.via)
          /\ Record(arg[t], r.sym)
    /\ pc' = [pc EXCEPT ![t] = "idle"]
    /\ arg' = [arg EXCEPT ![t] = NoArg]
    /\ UNCHANGED <<config, REGISTRY, poisoned, foreign, lock, sites>>

\* `write.get_or_insert(string)`, then the guard is dropped.
Registry_get_or_insert_insert(t) ==
    /\ pc[t] = "get_or_insert_write"
    /\ arg[t] \in DOMAIN by_string \/ HeapLeft
    /\ LET r == Store_get_or_insert(arg[t])
       IN /\ mem' = r.mem
          /\ by_string' = r.by_string
          /\ by_pointer' = r.by_pointer
          /\ Returns("get_or_insert", arg[t], r.sym, r.via)
          /\ Record(arg[t], r.sym)
    /\ writer' = NoThread
    /\ pc' = [pc EXCEPT ![t] = "idle"]
    /\ arg' = [arg EXCEPT ![t] = NoArg]
    /\ UNCHANGED <<config, REGISTRY, poisoned, foreign, readers, sites>>

\* ---------------------------------------------- Registry::get_or_insert_static

\* Registry::get_or_insert_static / Symbol::new_static, the optimistic
\* lookup `read.get(string)`: return the hit, or drop the read guard.
Registry_get_or_insert_static_check(t, string) ==
    /\ pc[t] = "read"
    /\ readers' = readers \ {t}
    /\ LET previously_interned == Store_get(mem[string])
       IN IF previously_interned # NoSymbol
          THEN /\ pc' = [pc EXCEPT ![t] = "idle"]
               /\ Returns("get_or_insert_static", string, previously_interned, "read")
               /\ Record(mem[string], previously_interned)
               /\ UNCHANGED arg
          ELSE /\ pc' = [pc EXCEPT ![t] = "get_or_insert_static_miss"]
               /\ arg' = [arg EXCEPT ![t] = string]
               /\ NoReturn
               /\ UNCHANGED returned
    /\ UNCHANGED <<config, REGISTRY, poisoned, foreign, store, writer, sites>>

\* `let mut write = self.write();`
Registry_get_or_insert_static_write(t) ==
    /\ pc[t] = "get_or_insert_static_miss"
    /\ CanWrite
    /\ LockResult_unwrap_or_else_into_inner(LockResult)
    /\ writer' = t
    /\ pc' = [pc EXCEPT ![t] = "get_or_insert_static_write"]
    /\ NoReturn
    /\ UNCHANGED <<config, REGISTRY, poisoned, foreign, store, readers, arg, sites, returned>>

\* `write.get_or_insert_static(string)`, then the guard is dropped.
Registry_get_or_insert_static_insert(t) ==
    /\ pc[t] = "get_or_insert_static_write"
    /\ LET r == Store_get_or_insert_static(arg[t])
       IN /\ mem' = r.mem
          /\ by_string' = r.by_string
          /\ by_pointer' = r.by_pointer
          /\ Returns("get_or_insert_static", arg[t], r.sym, r.via)
          /\ Record(mem[arg[t]], r.sym)
    /\ writer' = NoThread
    /\ pc' = [pc EXCEPT ![t] = "idle"]
    /\ arg' = [arg EXCEPT ![t] = NoArg]
    /\ UNCHANGED <<config, REGISTRY, poisoned, foreign, readers, sites>>

\* ------------------------------------------------------------------- Sites

\* Whether Site has the `initialized` field:
\* cfg(any(miri, target_arch = "wasm32", feature = "debug-assertions")).
HasInitialized == debug_assertions \/ ~ctor_support

\* Site::get_string
Site_get_string(i) == inner[i]

\* Registry::register_sites, called by the static constructor of module m
\* (enable!): `Registry::global().write()`.  The constructor of a module
\* runs once, when the module is loaded.
Registry_register_sites(t, m) ==
    /\ pc[t] = "idle"
    /\ ctor[m] = "pending"
    /\ CanWrite
    /\ LockResult_unwrap_or_else_into_inner(LockResult)
    /\ writer' = t
    /\ ctor' = [ctor EXCEPT ![m] = "running"]
    /\ pc' = [pc EXCEPT ![t] = "register_sites"]
    /\ arg' = [arg EXCEPT ![t] = [table |-> m, next |-> 1, interned |-> NoSymbol]]
    /\ NoReturn
    /\ UNCHANGED <<config, REGISTRY, poisoned, foreign, store, readers, inner, initialized,
                   writes, returned>>

\* RegistryWriteGuard::register_sites, one turn of the loop:
\* `let string = registration.get_string();`
\* `let interned = self.guard.get_or_insert_static(string);`
RegistryWriteGuard_register_sites(t) ==
    /\ pc[t] = "register_sites"
    /\ arg[t].next <= Len(TABLE[arg[t].table])
    /\ LET registration == TABLE[arg[t].table][arg[t].next]
           string == Site_get_string(registration)
           r == Store_get_or_insert_static(string)
       IN /\ mem' = r.mem
          /\ by_string' = r.by_string
          /\ by_pointer' = r.by_pointer
          /\ arg' = [arg EXCEPT ![t].interned = r.sym]
          /\ Record(mem[string], r.sym)
    /\ pc' = [pc EXCEPT ![t] = "initialize"]
    /\ NoReturn
    /\ UNCHANGED <<config, REGISTRY, poisoned, foreign, lock, sites>>

\* Site::initialize, first statement:
\* `self.initialized.store(true, SeqCst)` where the field exists.
Site_initialize_flag(t) ==
    /\ pc[t] = "initialize"
    /\ LET registration == TABLE[arg[t].table][arg[t].next]
       IN initialized' = IF HasInitialized
                         THEN [initialized EXCEPT ![registration] = TRUE]
                         ELSE initialized
    /\ pc' = [pc EXCEPT ![t] = "initialize_inner"]
    /\ NoReturn
    /\ UNCHANGED <<config, REGISTRY, poisoned, foreign, store, lock, arg, inner, ctor,
                   writes, returned>>

\* A registration that locks per Site: the write guard is dropped after
\* each Site's slot is written.
Site_initialize_inner_unlock(t) ==
    /\ pc[t] = "initialize_inner"
    /\ LET registration == TABLE[arg[t].table][arg[t].next]
       IN /\ inner' = [inner EXCEPT ![registration] = Symbol_inner(arg[t].interned)]
          /\ writes' = [writes EXCEPT ![registration] = @ + 1]
    /\ arg' = [arg EXCEPT ![t].next = @ + 1, ![t].interned = NoSymbol]
    /\ pc' = [pc EXCEPT ![t] = "register_sites"]
    /\ writer' = NoThread
    /\ NoReturn
    /\ UNCHANGED <<config, REGISTRY, poisoned, foreign, store, readers, initialized, ctor,
                   returned>>

\* A Site::initialize that sets the flag and leaves the slot as it was.
Site_initialize_inner_skip(t) ==
    /\ pc[t] = "initialize_inner"
    /\ arg' = [arg EXCEPT ![t].next = @ + 1, ![t].interned = NoSymbol]
    /\ pc' = [pc EXCEPT ![t] = "register_sites"]
    /\ NoReturn
    /\ UNCHANGED <<config, REGISTRY, poisoned, foreign, store, lock, inner, initialized,
                   ctor, writes, returned>>

\* Site::initialize, second statement: `*self.inner.get() = interned.inner()`;
\* the loop goes on to the next Site.
Site_initialize_inner(t) ==
    /\ pc[t] = "initialize_inner"
    /\ LET registration == TABLE[arg[t].table][arg[t].next]
       IN /\ inner' = [inner EXCEPT ![registration] = Symbol_inner(arg[t].interned)]
          /\ writes' = [writes EXCEPT ![registration] = @ + 1]
    /\ arg' = [arg EXCEPT ![t].next = @ + 1, ![t].interned = NoSymbol]
    /\ pc' = [pc EXCEPT ![t] = "register_sites"]
    /\ NoReturn
    /\ UNCHANGED <<config, REGISTRY, poisoned, foreign, store, lock, initialized, ctor, returned>>

\* Registry::register_sites returns: the loop is over and the write guard is
\* dropped.
Registry_register_sites_return(t) ==
    /\ pc[t] = "register_sites"
    /\ arg[t].next > Len(TABLE[arg[t].table])
    /\ writer' = NoThread
    /\ ctor' = [ctor EXCEPT ![arg[t].table] =
                    IF @ = "rerunning" THEN "done_twice" ELSE "done"]
    /\ pc' = [pc EXCEPT ![t] = "idle"]
    /\ arg' = [arg EXCEPT ![t] = NoArg]
    /\ Returns("register_sites", arg[t].table, NoSymbol, "none")
    /\ UNCHANGED <<config, REGISTRY, poisoned, foreign, store, readers, inner, initialized,
                   writes, returned>>

\* Registry::register_sites called a second time for the table of module m
\* (a second call of the public `_stringleton_register_symbols`, or of
\* Registry::register_sites itself): `Registry::global().write()`.
Registry_register_sites_again(t, m) ==
    /\ pc[t] = "idle"
    /\ ctor[m] = "done"
    /\ CanWrite
    /\ LockResult_unwrap_or_else_into_inner(LockResult)
    /\ writer' = t
    /\ ctor' = [ctor EXCEPT ![m] = "rerunning"]
    /\ pc' = [pc EXCEPT ![t] = "register_sites"]
    /\ arg' = [arg EXCEPT ![t] = [table |-> m, next |-> 1, interned |-> NoSymbol]]
    /\ NoReturn
    /\ UNCHANGED <<config, REGISTRY, poisoned, foreign, store, readers, inner, initialized,
                   writes, returned>>

\* The static constructor of module m has run to its end.
CtorHasRun(m) == ctor[m] \in {"done", "rerunning", "done_twice"}

\* The values a load of Site i's slot can yield: the slot's value, or the
\* value a store of another thread, not ordered with the load, is about to
\* put there (Site::initialize called again while the Site is in use).
Site_inner_get(i) ==
    {inner[i]} \cup {arg[u].interned : u \in {v \in Threads :
                         /\ pc[v] = "initialize_inner"
                         /\ TABLE[arg[v].table][arg[v].next] = i}}

\* A read of a Site that holds the registry's read lock while it loads the
\* slot.
Site_get_after_ctor_locked(t, i) ==
    /\ pc[t] = "idle"
    /\ ctor_support
    /\ CtorHasRun(ModuleOf(i))
    /\ CanRead
    /\ \E x \in Site_inner_get(i) :
           /\ Returns("sym", i, Symbol_new_unchecked(x), "slot")
           /\ Record(StaticText[i], Symbol_new_unchecked(x))
    /\ UNCHANGED <<config, REGISTRY, poisoned, foreign, store, lock, pc, arg, sites>>

\* Site::get_after_ctor on a target with static constructors (sym!, or the
\* deref of a StaticSymbol): get_with_ctor_support.  Its safety contract is
\* that the static constructor of the Site's module has run.  With the
\* debug-assertions feature the call panics when the flag is not set;
\* otherwise it loads the slot.
Site_get_after_ctor(t, i) ==
    /\ pc[t] = "idle"
    /\ ctor_support
    /\ CtorHasRun(ModuleOf(i))
    /\ IF debug_assertions /\ ~initialized[i]
       THEN /\ Returns("sym", i, NoSymbol, "panic")
            /\ UNCHANGED returned
       ELSE \E x \in Site_inner_get(i) :
                /\ Returns("sym", i, Symbol_new_unchecked(x), "slot")
                /\ Record(StaticText[i], Symbol_new_unchecked(x))
    /\ UNCHANGED <<config, REGISTRY, poisoned, foreign, store, lock, pc, arg, sites>>

\* ------------------------------------------------- Sites, the fallback path

\* The values a non-atomic load of Site i's slot can yield: the slot's
\* value, or the value an atomic store of another thread, not ordered with
\* the load, is about to put there.
Site_inner_load(i) ==
    {inner[i]} \cup {arg[u].interned : u \in {v \in Threads :
                         /\ pc[v] = "initialize_atomic_store"
                         /\ arg[v].site = i}}

\* A get_without_ctor_support without the check of the flag: every access
\* goes on to initialize_atomic and so to the registry.
get_without_ctor_support_always(t, i) ==
    /\ pc[t] = "idle"
    /\ ~ctor_support
    /\ pc' = [pc EXCEPT ![t] = "initialize_atomic"]
    /\ arg' = [arg EXCEPT ![t] = [site |-> i, stored_value |-> NoSymbol,
                                  interned |-> NoSymbol]]
    /\ NoReturn
    /\ UNCHANGED returned
    /\ UNCHANGED <<config, REGISTRY, poisoned, foreign, store, lock, sites>>

\* Site::get_after_ctor where static constructors are not supported (Miri,
\* wasm32): get_without_ctor_support.  `site.initialized.load(SeqCst)`: when
\* set, the slot is read non-atomically and the call returns; otherwise the
\* call goes on to initialize_atomic.
get_without_ctor_support(t, i) ==
    /\ pc[t] = "idle"
    /\ ~ctor_support
    /\ IF initialized[i]
       THEN /\ \E x \in Site_inner_load(i) :
                  /\ Returns("sym", i, Symbol_new_unchecked(x), "slot")
                  /\ Record(StaticText[i], Symbol_new_unchecked(x))
            /\ UNCHANGED <<pc, arg>>
       ELSE /\ pc' = [pc EXCEPT ![t] = "initialize_atomic"]
            /\ arg' = [arg EXCEPT ![t] = [site |-> i, stored_value |-> NoSymbol,
                                          interned |-> NoSymbol]]
            /\ NoReturn
            /\ UNCHANGED returned
    /\ UNCHANGED <<config, REGISTRY, poisoned, foreign, store, lock, sites>>

\* initialize_atomic: `atomic_inner.load(Ordering::Relaxed)`.  A relaxed
\* load yields the slot's value or the value it had at first, the reference
\* to the literal.
initialize_atomic_load(t) ==
    /\ pc[t] = "initialize_atomic"
    /\ \E stored_value \in {inner[arg[t].site], arg[t].site} :
           arg' = [arg EXCEPT ![t].stored_value = stored_value]
    /\ pc' = [pc EXCEPT ![t] = "initialize_atomic_intern"]
    /\ NoReturn
    /\ UNCHANGED <<config, REGISTRY, poisoned, foreign, store, lock, sites, returned>>

\* initialize_atomic: `Registry::global().get_or_insert_static(stored_value)`,
\* its first statement `self.read()`.
initialize_atomic_read(t) ==
    /\ pc[t] = "initialize_atomic_intern"
    /\ CanRead
    /\ LockResult_unwrap_or_else_into_inner(LockResult)
    /\ readers' = readers \cup {t}
    /\ pc' = [pc EXCEPT ![t] = "initialize_atomic_read"]
    /\ NoReturn
    /\ UNCHANGED <<config, REGISTRY, poisoned, foreign, store, writer, arg, sites, returned>>

\* get_or_insert_static called by initialize_atomic: the optimistic lookup
\* `read.get(string)`; the read guard is dropped.
initialize_atomic_check(t) ==
    /\ pc[t] = "initialize_atomic_read"
    /\ readers' = readers \ {t}
    /\ LET previously_interned == Store_get(mem[arg[t].stored_value])
       IN IF previously_interned # NoSymbol
          THEN /\ pc' = [pc EXCEPT ![t] = "initialize_atomic_store"]
               /\ arg' = [arg EXCEPT ![t].interned = previously_interned]
               /\ Record(mem[arg[t].stored_value], previously_interned)
          ELSE /\ pc' = [pc EXCEPT ![t] = "initialize_atomic_miss"]
               /\ UNCHANGED <<arg, returned>>
    /\ NoReturn
    /\ UNCHANGED <<config, REGISTRY, poisoned, foreign, store, writer, sites>>

\* get_or_insert_static called by initialize_atomic: `self.write()`.
initialize_atomic_write(t) ==
    /\ pc[t] = "initialize_atomic_miss"
    /\ CanWrite
    /\ LockResult_unwrap_or_else_into_inner(LockResult)
    /\ writer' = t
    /\ pc' = [pc EXCEPT ![t] = "initialize_atomic_write"]
    /\ NoReturn
    /\ UNCHANGED <<config, REGISTRY, poisoned, foreign, store, readers, arg, sites, returned>>

\* get_or_insert_static called by initialize_atomic:
\* `write.get_or_insert_static(string)`; the write guard is dropped.
initialize_atomic_insert(t) ==
    /\ pc[t] = "initialize_atomic_write"
    /\ LET r == Store_get_or_insert_static(arg[t].stored_value)
       IN /\ mem' = r.mem
          /\ by_string' = r.by_string
          /\ by_pointer' = r.by_pointer
          /\ arg' = [arg EXCEPT ![t].interned = r.sym]
          /\ Record(mem[arg[t].stored_value], r.sym)
    /\ writer' = NoThread
    /\ pc' = [pc EXCEPT ![t] = "initialize_atomic_store"]
    /\ NoReturn
    /\ UNCHANGED <<config, REGISTRY, poisoned, foreign, readers, sites>>

\* An initialize_atomic that stores the reference it loaded instead of the
\* interned one.
initialize_atomic_store_loaded(t) ==
    /\ pc[t] = "initialize_atomic_store"
    /\ inner' = [inner EXCEPT ![arg[t].site] = arg[t].stored_value]
    /\ writes' = [writes EXCEPT ![arg[t].site] = @ + 1]
    /\ pc' = [pc EXCEPT ![t] = "initialize_atomic_flag"]
    /\ NoReturn
    /\ UNCHANGED <<config, REGISTRY, poisoned, foreign, store, lock, arg, initialized, ctor,
                   returned>>

\* initialize_atomic: `atomic_inner.store(ptr, Ordering::SeqCst)` with ptr
\* the reference of the interned Symbol.
initialize_atomic_store(t) ==
    /\ pc[t] = "initialize_atomic_store"
    /\ inner' = [inner EXCEPT ![arg[t].site] = Symbol_inner(arg[t].interned)]
    /\ writes' = [writes EXCEPT ![arg[t].site] = @ + 1]
    /\ pc' = [pc EXCEPT ![t] = "initialize_atomic_flag"]
    /\ NoReturn
    /\ UNCHANGED <<config, REGISTRY, poisoned, foreign, store, lock, arg, initialized, ctor,
                   returned>>

\* An initialize_atomic that returns without setting the flag.
initialize_atomic_flag_skip(t) ==
    /\ pc[t] = "initialize_atomic_flag"
    /\ pc' = [pc EXCEPT ![t] = "initialize_atomic_done"]
    /\ NoReturn
    /\ UNCHANGED <<config, REGISTRY, poisoned, foreign, store, lock, arg, sites, returned>>

\* initialize_atomic: `initialized.store(true, Ordering::SeqCst)`.
initialize_atomic_flag(t) ==
    /\ pc[t] = "initialize_atomic_flag"
    /\ initialized' = [initialized EXCEPT ![arg[t].site] = TRUE]
    /\ pc' = [pc EXCEPT ![t] = "initialize_atomic_done"]
    /\ NoReturn
    /\ UNCHANGED <<config, REGISTRY, poisoned, foreign, store, lock, arg, inner, ctor, writes,
                   returned>>

\* get_without_ctor_support returns `&*(inner_ptr as *const Symbol)` after
\* initialize_atomic, and get_after_ctor reads the slot through it.
get_without_ctor_support_return(t) ==
    /\ pc[t] = "initialize_atomic_done"
    /\ \E x \in Site_inner_load(arg[t].site) :
           /\ Returns("sym", arg[t].site, Symbol_new_unchecked(x), "initialize_atomic")
           /\ Record(StaticText[arg[t].site], Symbol_new_unchecked(x))
    /\ pc' = [pc EXCEPT ![t] = "idle"]
    /\ arg' = [arg EXCEPT ![t] = NoArg]
    /\ UNCHANGED <<config, REGISTRY, poisoned, foreign, store, lock, sites>>

\* ------------------------------------------------- a second Registry instance

\* A unit that links its own copy of stringleton-registry (a cdylib that
\* does not use stringleton-dylib) has its own `static REGISTRY`, hence its
\* own Store: `foreign`.  The operations below are Store's, on that Store.

\* The references the isolated unit passes to Symbol::new_static: a static
\* of its own, and one the host handed over (the last caller reference).
ForeignRefs == {TABLE[2][1], NumStatic}

\* The Symbols the second registry holds.
ForeignRegistered == {foreign.by_string[s] : s \in DOMAIN foreign.by_string}

\* Store::get, second instance.
Foreign_get(string) ==
    IF string \in DOMAIN foreign.by_string
    THEN Symbol_new_unchecked(foreign.by_string[string])
    ELSE NoSymbol

\* A get_by_address that validates by content: it reads the text at the
\* address and looks that text up.
Foreign_get_by_address_by_text(address) ==
    IF \E c \in Cells : mem[c] # NoText /\ SymbolStr_address(c) = AsUsize(address)
    THEN Foreign_get(mem[CHOOSE c \in Cells :
                 mem[c] # NoText /\ SymbolStr_address(c) = AsUsize(address)])
    ELSE NoSymbol

\* Store::get_by_address, second instance.
Foreign_get_by_address(address) ==
    IF AsUsize(address) \in DOMAIN foreign.by_pointer
    THEN Symbol_new_unchecked(foreign.by_pointer[AsUsize(address)])
    ELSE NoSymbol

\* Store::get_or_insert, second instance.
Foreign_get_or_insert(string) ==
    IF string \in DOMAIN foreign.by_string
    THEN [sym |-> Symbol_new_unchecked(foreign.by_string[string]),
          via |-> "recheck", mem |-> mem, store |-> foreign]
    ELSE LET interned == SymbolStr_from(string)
         IN [sym |-> Symbol_new_unchecked(interned.key), via |-> "insert",
             mem |-> interned.mem,
             store |-> [by_string |-> (string :> interned.key)
                                          @@ foreign.by_string,
                        by_pointer |-> (SymbolStr_address(interned.key)
                                            :> interned.key)
                                           @@ foreign.by_pointer]]

\* Store::get_or_insert_static, second instance.
Foreign_get_or_insert_static(string) ==
    IF mem[string] \in DOMAIN foreign.by_string
    THEN [sym |-> Symbol_new_unchecked(foreign.by_string[mem[string]]),
          via |-> "recheck", mem |-> mem, store |-> foreign]
    ELSE [sym |-> Symbol_new_unchecked(string), via |-> "insert",
          mem |-> mem,
          store |-> [by_string |-> (mem[string] :> string) @@ foreign.by_string,
                     by_pointer |-> (SymbolStr_address(string) :> string)
                                        @@ foreign.by_pointer]]

\* Symbol::new in the isolated unit: Registry::get_or_insert on its own
\* registry, from `self.read()` to the drop of the last guard.
Foreign_Symbol_new(t, string) ==
    /\ pc[t] = "idle"
    /\ string \in DOMAIN foreign.by_string \/ HeapLeft
    /\ LET r == Foreign_get_or_insert(string)
       IN /\ mem' = r.mem
          /\ foreign' = r.store
          /\ Returns("foreign_get_or_insert", string, r.sym, r.via)
    /\ UNCHANGED <<config, REGISTRY, poisoned, by_string, by_pointer, lock, pc, arg, sites,
                   returned>>

\* Symbol::new_static in the isolated unit: Registry::get_or_insert_static
\* on its own registry.
Foreign_Symbol_new_static(t, string) ==
    /\ pc[t] = "idle"
    /\ LET r == Foreign_get_or_insert_static(string)
       IN /\ foreign' = r.store
          /\ Returns("foreign_get_or_insert_static", string, r.sym, r.via)
    /\ UNCHANGED <<config, REGISTRY, poisoned, store, lock, pc, arg, sites, returned>>

\* Symbol::try_from_ffi in the isolated unit: Registry::get_by_address on
\* its own registry.
Foreign_Symbol_try_from_ffi(t, address) ==
    /\ pc[t] = "idle"
    /\ Returns("foreign_get_by_address", address,
               Foreign_get_by_address(address), "read")
    /\ UNCHANGED <<config, REGISTRY, poisoned, foreign, store, lock, pc, arg, sites, returned>>

\* ----------------------------------------------------- panics under a guard

\* Thread t panics while it holds a RegistryReadGuard or RegistryWriteGuard
\* (in its own code between Registry::read / Registry::write and the drop of
\* the guard).  Unwinding drops the guard, which releases the lock; the drop
\* of a write guard in a panicking thread poisons the RwLock, the drop of a
\* read guard does not.  The thread ends.
RegistryGuard_panic(t) ==
    /\ t \in readers \/ writer = t
    /\ poisoned' = (poisoned \/ writer = t)
    /\ readers' = readers \ {t}
    /\ writer' = IF writer = t THEN NoThread ELSE writer
    /\ pc' = [pc EXCEPT ![t] = "panicked"]
    /\ arg' = [arg EXCEPT ![t] = NoArg]
    /\ NoReturn
    /\ UNCHANGED <<config, REGISTRY, foreign, store, sites, returned>>

\* Store::get_or_insert under the write guard, statement by statement.
\* First `by_string.entry_ref(string)`: Occupied returns the key and the
\* guard is dropped; Vacant `insert_entry(())` leaks the copy and enters it
\* in by_string.
Store_get_or_insert_entry(t) ==
    /\ pc[t] = "get_or_insert_write"
    /\ arg[t] \in DOMAIN by_string \/ HeapLeft
    /\ IF arg[t] \in DOMAIN by_string
       THEN /\ Returns("get_or_insert", arg[t],
                       Symbol_new_unchecked(by_string[arg[t]]), "recheck")
            /\ Record(arg[t], Symbol_new_unchecked(by_string[arg[t]]))
            /\ writer' = NoThread
            /\ pc' = [pc EXCEPT ![t] = "idle"]
            /\ arg' = [arg EXCEPT ![t] = NoArg]
            /\ UNCHANGED store
       ELSE /\ LET interned == SymbolStr_from(arg[t])
               IN /\ mem' = interned.mem
                  /\ by_string' = (arg[t] :> interned.key) @@ by_string
            /\ pc' = [pc EXCEPT ![t] = "get_or_insert_by_pointer"]
            /\ NoReturn
            /\ UNCHANGED <<by_pointer, writer, arg, returned>>
    /\ UNCHANGED <<config, REGISTRY, poisoned, foreign, readers, sites>>

\* Store::get_or_insert, Vacant branch, second update:
\* `self.by_pointer.insert(interned.address(), *interned)`; then the Symbol
\* is returned and the guard dropped.
Store_get_or_insert_by_pointer(t) ==
    /\ pc[t] = "get_or_insert_by_pointer"
    /\ LET interned == by_string[arg[t]]
       IN /\ by_pointer' = (SymbolStr_address(interned) :> interned) @@ by_pointer
          /\ Returns("get_or_insert", arg[t], Symbol_new_unchecked(interned), "insert")
          /\ Record(arg[t], Symbol_new_unchecked(interned))
    /\ writer' = NoThread
    /\ pc' = [pc EXCEPT ![t] = "idle"]
    /\ arg' = [arg EXCEPT ![t] = NoArg]
    /\ UNCHANGED <<config, REGISTRY, poisoned, foreign, mem, by_string, readers, sites>>

\* ------------------------------------------------- guards held by callers

\* A thread that holds a RegistryReadGuard obtained from Registry::read()
\* calls Registry::get_or_insert(string) before dropping it.  The call's own
\* read() and optimistic lookup go through next to the guard already held;
\* on a hit the Symbol is returned; on a miss the call goes on to write(),
\* with the caller's guard still counted among the readers.
Registry_get_or_insert_under_read(t, string) ==
    /\ pc[t] = "read"
    /\ LET previously_interned == Store_get(string)
       IN IF previously_interned # NoSymbol
          THEN /\ Returns("get_or_insert", string, previously_interned, "read")
               /\ Record(string, previously_interned)
               /\ UNCHANGED <<pc, arg>>
          ELSE /\ pc' = [pc EXCEPT ![t] = "get_or_insert_miss"]
               /\ arg' = [arg EXCEPT ![t] = string]
               /\ NoReturn
               /\ UNCHANGED returned
    /\ UNCHANGED <<config, REGISTRY, poisoned, foreign, store, lock, sites>>

\* Registry::write() called for bulk access: the caller keeps the guard.
Registry_write(t) ==
    /\ pc[t] = "idle"
    /\ CanWrite
    /\ LockResult_unwrap_or_else_into_inner(LockResult)
    /\ writer' = t
    /\ pc' = [pc EXCEPT ![t] = "write"]
    /\ NoReturn
    /\ UNCHANGED <<config, REGISTRY, poisoned, foreign, store, readers, arg, sites, returned>>

\* The caller's RegistryWriteGuard goes out of scope.
RegistryWriteGuard_drop(t) ==
    /\ pc[t] = "write"
    /\ writer' = NoThread
    /\ pc' = [pc EXCEPT ![t] = "idle"]
    /\ NoReturn
    /\ UNCHANGED <<config, REGISTRY, poisoned, foreign, store, readers, arg, sites, returned>>

\* A thread ends: it makes no further call.
Thread_exit(t) ==
    /\ pc[t] = "idle"
    /\ pc' = [pc EXCEPT ![t] = "exited"]
    /\ NoReturn
    /\ UNCHANGED <<config, REGISTRY, poisoned, foreign, store, lock, arg, sites, returned>>

\* RegistryReadGuard::len and RegistryReadGuard::is_empty on a guard from
\* Registry::read(); the guard is dropped.
RegistryReadGuard_len(t) ==
    /\ pc[t] = "read"
    /\ readers' = readers \ {t}
    /\ pc' = [pc EXCEPT ![t] = "idle"]
    /\ Returns("len", NoArg, Store_len,
               IF Store_len = 0 THEN "is_empty" ELSE "not_empty")
    /\ UNCHANGED <<config, REGISTRY, poisoned, foreign, store, writer, arg, sites, returned>>

\* Registry::global(): REGISTRY.get_or_init(Registry::new).  The fast path
\* of get_or_init returns the value of a complete cell.
Registry_global(t) ==
    /\ pc[t] = "idle"
    /\ IF REGISTRY.state = "complete"
       THEN /\ REGISTRY' = [REGISTRY EXCEPT !.handed = @ \cup {REGISTRY.value}]
            /\ Returns("global", NoArg, REGISTRY.value, "get")
            /\ UNCHANGED pc
       ELSE /\ pc' = [pc EXCEPT ![t] = "get_or_init"]
            /\ NoReturn
            /\ UNCHANGED REGISTRY
    /\ UNCHANGED <<config, poisoned, foreign, store, lock, arg, sites, returned>>

\* A get_or_init that runs its closure whenever the cell is not complete.
OnceLock_initialize_racy(t) ==
    /\ pc[t] = "get_or_init"
    /\ IF REGISTRY.state = "complete"
       THEN /\ pc' = [pc EXCEPT ![t] = "idle"]
            /\ REGISTRY' = [REGISTRY EXCEPT !.handed = @ \cup {REGISTRY.value}]
            /\ Returns("global", NoArg, REGISTRY.value, "wait")
       ELSE /\ pc' = [pc EXCEPT ![t] = "Registry_new"]
            /\ REGISTRY' = [REGISTRY EXCEPT !.state = "running"]
            /\ NoReturn
    /\ UNCHANGED <<config, poisoned, foreign, store, lock, arg, sites, returned>>

\* The slow path of get_or_init: the Once behind the cell lets one caller
\* run the closure; a caller that finds it running waits until the cell is
\* complete and returns its value.
OnceLock_initialize(t) ==
    /\ pc[t] = "get_or_init"
    /\ REGISTRY.state # "running"
    /\ IF REGISTRY.state = "complete"
       THEN /\ pc' = [pc EXCEPT ![t] = "idle"]
            /\ REGISTRY' = [REGISTRY EXCEPT !.handed = @ \cup {REGISTRY.value}]
            /\ Returns("global", NoArg, REGISTRY.value, "wait")
       ELSE /\ pc' = [pc EXCEPT ![t] = "Registry_new"]
            /\ REGISTRY' = [REGISTRY EXCEPT !.state = "running"]
            /\ NoReturn
    /\ UNCHANGED <<config, poisoned, foreign, store, lock, arg, sites, returned>>

\* Registry::new() run as the closure of get_or_init: the new Registry is
\* moved into the cell, the cell becomes complete, and global() returns the
\* reference to the cell's value.
Registry_new(t) ==
    /\ pc[t] = "Registry_new"
    /\ pc' = [pc EXCEPT ![t] = "idle"]
    /\ LET n == REGISTRY.constructed + 1
       IN /\ REGISTRY' = [state |-> "complete", value |-> n, constructed |-> n,
                          handed |-> REGISTRY.handed \cup {n}]
          /\ Returns("global", NoArg, n, "init")
    /\ UNCHANGED <<config, poisoned, foreign, store, lock, arg, sites, returned>>

\* Symbol::new, Symbol::new_static, Symbol::get: Registry::global().op(..)
\* with global() on its fast path; each of these operations begins with
\* read() on the Registry that global() returned.
Symbol_new(t) ==
    /\ REGISTRY.state = "complete"
    /\ Registry_read(t)

\* A bulk get_or_insert that trusts its caller to pass new texts only: it
\* inserts without looking the text up.
RegistryWriteGuard_get_or_insert_new(t, string) ==
    /\ pc[t] = "write"
    /\ HeapLeft
    /\ LET r == Store_get_or_insert_unchecked(string)
       IN /\ mem' = r.mem
          /\ by_string' = r.by_string
          /\ by_pointer' = r.by_pointer
          /\ Returns("get_or_insert", string, r.sym, r.via)
          /\ Record(string, r.sym)
    /\ UNCHANGED <<config, REGISTRY, poisoned, foreign, lock, pc, arg, sites>>

\* RegistryWriteGuard::get_or_insert on a guard from Registry::write():
\* `self.guard.get_or_insert(string)`; the caller keeps the guard.
RegistryWriteGuard_get_or_insert(t, string) ==
    /\ pc[t] = "write"
    /\ string \in DOMAIN by_string \/ HeapLeft
    /\ LET r == Store_get_or_insert(string)
       IN /\ mem' = r.mem
          /\ by_string' = r.by_string
          /\ by_pointer' = r.by_pointer
          /\ Returns("get_or_insert", string, r.sym, r.via)
          /\ Record(string, r.sym)
    /\ UNCHANGED <<config, REGISTRY, poisoned, foreign, lock, pc, arg, sites>>

\* RegistryWriteGuard::get_or_insert_static on a guard from
\* Registry::write(): `self.guard.get_or_insert_static(string)`.
RegistryWriteGuard_get_or_insert_static(t, string) ==
    /\ pc[t] = "write"
    /\ LET r == Store_get_or_insert_static(string)
       IN /\ mem' = r.mem
          /\ by_string' = r.by_string
          /\ by_pointer' = r.by_pointer
          /\ Returns("get_or_insert_static", string, r.sym, r.via)
          /\ Record(mem[string], r.sym)
    /\ UNCHANGED <<config, REGISTRY, poisoned, foreign, lock, pc, arg, sites>>

\* Registry::get_or_insert(string) run from the current state with no other
\* thread in between: the Symbol found under the read guard, the store left
\* alone; otherwise what write.get_or_insert(string) does.
Registry_get_or_insert(string) ==
    LET previously_interned == Store_get(string)
    IN IF previously_interned # NoSymbol
       THEN [sym |-> previously_interned, mem |-> mem,
             by_string |-> by_string, by_pointer |-> by_pointer]
       ELSE LET r == Store_get_or_insert(string)
            IN [sym |-> r.sym, mem |-> r.mem,
                by_string |-> r.by_string, by_pointer |-> r.by_pointer]

\* Registry::get_or_insert_static(string) run likewise.
Registry_get_or_insert_static(string) ==
    LET previously_interned == Store_get(mem[string])
    IN IF previously_interned # NoSymbol
       THEN [sym |-> previously_interned, mem |-> mem,
             by_string |-> by_string, by_pointer |-> by_pointer]
       ELSE LET r == Store_get_or_insert_static(string)
            IN [sym |-> r.sym, mem |-> r.mem,
                by_string |-> r.by_string, by_pointer |-> r.by_pointer]

\* --------------------------------------- Sites reached outside the protocol

\* A read of a Site that loads the slot without looking at the flag.
get_with_ctor_support_unchecked(t, i) ==
    /\ pc[t] = "idle"
    /\ ctor_support
    /\ \E x \in Site_inner_get(i) :
           /\ Returns("sym", i, Symbol_new_unchecked(x), "slot")
           /\ Record(StaticText[i], Symbol_new_unchecked(x))
    /\ UNCHANGED <<config, REGISTRY, poisoned, foreign, store, lock, pc, arg, sites>>

\* get_with_ctor_support, called whether or not the static constructor of
\* the Site's module has run (the caller's obligation is not checked by the
\* compiler: the code is reached whenever a `sym!()` expression is).  With
\* the debug-assertions feature the flag is asserted first; then the slot is
\* loaded non-atomically, which yields the stored value or, in a race with
\* the constructor's store, the value being stored.
get_with_ctor_support(t, i) ==
    /\ pc[t] = "idle"
    /\ ctor_support
    /\ IF debug_assertions /\ ~initialized[i]
       THEN /\ Returns("sym", i, NoSymbol, "panic")
            /\ UNCHANGED returned
       ELSE \E x \in Site_inner_get(i) :
                /\ Returns("sym", i, Symbol_new_unchecked(x), "slot")
                /\ Record(StaticText[i], Symbol_new_unchecked(x))
    /\ UNCHANGED <<config, REGISTRY, poisoned, foreign, store, lock, pc, arg, sites>>

\* ------------------------------------------------------- Symbol's accessors

\* The live references the threads build handles over with
\* Symbol::new_unchecked: a literal of a crate, the caller's static
\* references, and every leaked cell.
Handles == {c \in {TABLE[1][1]} \cup CallerRefs \cup HeapCells : mem[c] # NoText}

\* Thread t compares two handles: ==, Ord::cmp, Hash::hash of each, and two
\* inserts in an empty map keyed by Symbol.
Symbol_compare(t, x, y) ==
    /\ pc[t] = "idle"
    /\ Returns("compare", <<x, y>>,
               [eq |-> Symbol_eq(Symbol_new_unchecked(x), Symbol_new_unchecked(y)),
                cmp |-> Symbol_cmp(Symbol_new_unchecked(x), Symbol_new_unchecked(y)),
                hash |-> <<Symbol_hash(Symbol_new_unchecked(x)),
                           Symbol_hash(Symbol_new_unchecked(y))>>,
                map |-> HashMap_insert(
                            HashMap_insert({}, Symbol_new_unchecked(x), 1),
                            Symbol_new_unchecked(y), 2)],
               "pure")
    /\ UNCHANGED <<config, REGISTRY, poisoned, foreign, store, lock, pc, arg, sites, returned>>

\* An accessor that takes the registry's read lock for the time of the
\* call.
Symbol_project_locked(t, x) ==
    /\ pc[t] = "idle"
    /\ CanRead
    /\ LockResult_unwrap_or_else_into_inner(LockResult)
    /\ Returns("project", x,
               [as_str |-> Symbol_as_str(Symbol_new_unchecked(x)),
                to_ffi |-> Symbol_to_ffi(Symbol_new_unchecked(x))],
               "pure")
    /\ UNCHANGED <<config, REGISTRY, poisoned, foreign, store, lock, pc, arg, sites, returned>>

\* Thread t calls Symbol::as_str and Symbol::to_ffi on a handle.
Symbol_project(t, x) ==
    /\ pc[t] = "idle"
    /\ Returns("project", x,
               [as_str |-> Symbol_as_str(Symbol_new_unchecked(x)),
                to_ffi |-> Symbol_to_ffi(Symbol_new_unchecked(x))],
               "pure")
    /\ UNCHANGED <<config, REGISTRY, poisoned, foreign, store, lock, pc, arg, sites, returned>>

\* ---------------------------------------------------------------------- Spec

Init ==
    /\ ptr_width \in {32, 64}
    /\ debug_assertions \in BOOLEAN
    /\ ctor_support = TRUE
    /\ mem = [c \in Cells |-> IF c <= NumStatic THEN StaticText[c] ELSE NoText]
    /\ by_string = <<>>
    /\ by_pointer = <<>>
    /\ readers = {}
    /\ writer = NoThread
    /\ pc = [t \in Threads |-> "idle"]
    /\ arg = [t \in Threads |-> NoArg]
    /\ inner = [i \in Sites |-> i]
    /\ initialized = [i \in Sites |-> FALSE]
    /\ ctor = [m \in Modules |-> "pending"]
    /\ writes = [i \in Sites |-> 0]
    /\ poisoned = FALSE
    /\ foreign = [by_string |-> <<>>, by_pointer |-> <<>>]
    /\ lastCall = NoCall
    /\ returned = [s \in Texts |-> {}]
    /\ REGISTRY = Constructed

Next ==
    \/ \E t \in Threads : Registry_read(t)
    \/ \E t \in Threads, s \in Texts : Registry_get(t, s)
    \/ \E t \in Threads, v \in U64Values : Registry_get_by_address(t, v)
    \/ \E t \in Threads, s \in Texts : Registry_get_or_insert_check(t, s)
    \/ \E t \in Threads : Registry_get_or_insert_write(t)
    \/ \E t \in Threads : Registry_get_or_insert_insert(t)
    \/ \E t \in Threads, r \in CallerRefs : Registry_get_or_insert_static_check(t, r)
    \/ \E t \in Threads : Registry_get_or_insert_static_write(t)
    \/ \E t \in Threads : Registry_get_or_insert_static_insert(t)
    \/ \E t \in Threads, m \in Modules : Registry_register_sites(t, m)
    \/ \E t \in Threads : RegistryWriteGuard_register_sites(t)
    \/ \E t \in Threads : Site_initialize_flag(t)
    \/ \E t \in Threads : Site_initialize_inner(t)
    \/ \E t \in Threads : Registry_register_sites_return(t)
    \/ \E t \in Threads, i \in Sites : Site_get_after_ctor(t, i)

Spec == Init /\ [][Next]_vars

\* The startup protocol with a table registered twice: the static
\* constructors, a second call of register_sites per table, reads of the
\* Sites and Symbol::new_static.
NextStartup ==
    \/ \E t \in Threads : Registry_read(t)
    \/ \E t \in Threads, r \in CallerRefs : Registry_get_or_insert_static_check(t, r)
    \/ \E t \in Threads : Registry_get_or_insert_static_write(t)
    \/ \E t \in Threads : Registry_get_or_insert_static_insert(t)
    \/ \E t \in Threads, m \in Modules : Registry_register_sites(t, m)
    \/ \E t \in Threads, m \in Modules : Registry_register_sites_again(t, m)
    \/ \E t \in Threads : RegistryWriteGuard_register_sites(t)
    \/ \E t \in Threads : Site_initialize_flag(t)
    \/ \E t \in Threads : Site_initialize_inner(t)
    \/ \E t \in Threads : Registry_register_sites_return(t)
    \/ \E t \in Threads, i \in Sites : Site_get_after_ctor(t, i)

SpecStartup == Init /\ [][NextStartup]_vars

\* Two units with a registry each: the host interns through the registry
\* of this model, the isolated unit through its own; each validates the
\* 64-bit values of the other's Symbols.
NextIsolated ==
    \/ \E t \in Threads : Registry_read(t)
    \/ \E t \in Threads, s \in Texts : Registry_get_or_insert_check(t, s)
    \/ \E t \in Threads : Registry_get_or_insert_write(t)
    \/ \E t \in Threads : Registry_get_or_insert_insert(t)
    \/ \E t \in Threads, r \in CallerRefs : Registry_get_or_insert_static_check(t, r)
    \/ \E t \in Threads : Registry_get_or_insert_static_write(t)
    \/ \E t \in Threads : Registry_get_or_insert_static_insert(t)
    \/ \E t \in Threads, y \in ForeignRegistered :
           Registry_get_by_address(t, Symbol_to_ffi(y))
    \/ \E t \in Threads, s \in Texts : Foreign_Symbol_new(t, s)
    \/ \E t \in Threads, r \in ForeignRefs : Foreign_Symbol_new_static(t, r)
    \/ \E t \in Threads, x \in Registered :
           Foreign_Symbol_try_from_ffi(t, Symbol_to_ffi(x))

SpecIsolated == Init /\ [][NextIsolated]_vars

\* Sites reached at any time: the constructors of the modules run on some
\* threads (or never), while other threads evaluate `sym!()` expressions.
NextProtocol ==
    \/ \E t \in Threads, m \in Modules : Registry_register_sites(t, m)
    \/ \E t \in Threads : RegistryWriteGuard_register_sites(t)
    \/ \E t \in Threads : Site_initialize_flag(t)
    \/ \E t \in Threads : Site_initialize_inner(t)
    \/ \E t \in Threads : Registry_register_sites_return(t)
    \/ \E t \in Threads, i \in Sites : get_with_ctor_support(t, i)

SpecProtocol == Init /\ [][NextProtocol]_vars

\* Threads look up and intern, and any of them may panic while it holds a
\* guard.
NextPoison ==
    \/ \E t \in Threads : Registry_read(t)
    \/ \E t \in Threads, s \in Texts : Registry_get(t, s)
    \/ \E t \in Threads, v \in U64Values : Registry_get_by_address(t, v)
    \/ \E t \in Threads, s \in Texts : Registry_get_or_insert_check(t, s)
    \/ \E t \in Threads : Registry_get_or_insert_write(t)
    \/ \E t \in Threads : Registry_get_or_insert_insert(t)
    \/ \E t \in Threads : RegistryGuard_panic(t)

SpecPoison == Init /\ [][NextPoison]_vars

\* The static references holding one text that callers of
\* Symbol::new_static race with.
RaceRefs == {c \in 1..NumStatic : StaticText[c] = StaticText[TABLE[1][1]]}

\* Callers racing to intern: Symbol::new with any text, Symbol::new_static
\* with different static references to one text.
NextRace ==
    \/ \E t \in Threads : Registry_read(t)
    \/ \E t \in Threads, s \in Texts : Registry_get_or_insert_check(t, s)
    \/ \E t \in Threads : Registry_get_or_insert_write(t)
    \/ \E t \in Threads : Registry_get_or_insert_insert(t)
    \/ \E t \in Threads, r \in RaceRefs : Registry_get_or_insert_static_check(t, r)
    \/ \E t \in Threads : Registry_get_or_insert_static_write(t)
    \/ \E t \in Threads : Registry_get_or_insert_static_insert(t)

SpecRace == Init /\ [][NextRace]_vars

\* Insertions taken statement by statement, with a panic possible wherever a
\* guard is held: also inside `by_pointer.insert`, after by_string was
\* updated.
NextPanic ==
    \/ \E t \in Threads : Registry_read(t)
    \/ \E t \in Threads, s \in Texts : Registry_get(t, s)
    \/ \E t \in Threads, v \in U64Values : Registry_get_by_address(t, v)
    \/ \E t \in Threads, s \in Texts : Registry_get_or_insert_check(t, s)
    \/ \E t \in Threads : Registry_get_or_insert_write(t)
    \/ \E t \in Threads : Store_get_or_insert_entry(t)
    \/ \E t \in Threads : Store_get_or_insert_by_pointer(t)
    \/ \E t \in Threads : RegistryGuard_panic(t)

SpecPanic == Init /\ [][NextPanic]_vars

\* Threads call get and get_or_insert, hold guards from read() and write(),
\* call get_or_insert while holding a read guard, and end.
NextBulk ==
    \/ \E t \in Threads : Registry_read(t)
    \/ \E t \in Threads, s \in Texts : Registry_get(t, s)
    \/ \E t \in Threads, s \in Texts : Registry_get_or_insert_check(t, s)
    \/ \E t \in Threads : Registry_get_or_insert_write(t)
    \/ \E t \in Threads : Registry_get_or_insert_insert(t)
    \/ \E t \in Threads, s \in Texts : Registry_get_or_insert_under_read(t, s)
    \/ \E t \in Threads : Registry_write(t)
    \/ \E t \in Threads : RegistryWriteGuard_drop(t)
    \/ \E t \in Threads : Thread_exit(t)

\* What a thread inside a call or holding a guard does next when it is
\* scheduled: the lookup under its read guard and the drop of the guard, the
\* acquisition of the write lock, the insertion, the drop of a write guard.
Continue(t) ==
    \/ \E s \in Texts : Registry_get(t, s)
    \/ \E s \in Texts : Registry_get_or_insert_check(t, s)
    \/ Registry_get_or_insert_write(t)
    \/ Registry_get_or_insert_insert(t)
    \/ RegistryWriteGuard_drop(t)

\* Fair scheduling: a thread that can continue is scheduled, and every
\* thread ends at some point where it is outside the registry.  (Each of
\* these steps changes the thread's position.)
SpecBulk ==
    /\ Init
    /\ [][NextBulk]_vars
    /\ \A t \in Threads : WF_pc(Continue(t))
    /\ \A t \in Threads : SF_pc(Thread_exit(t))

\* Lookups next to insertions: get, get_by_address, len and is_empty, with
\* threads that intern texts and static references.
NextLookup ==
    \/ \E t \in Threads : Registry_read(t)
    \/ \E t \in Threads, s \in Texts : Registry_get(t, s)
    \/ \E t \in Threads, v \in U64Values : Registry_get_by_address(t, v)
    \/ \E t \in Threads : RegistryReadGuard_len(t)
    \/ \E t \in Threads, s \in Texts : Registry_get_or_insert_check(t, s)
    \/ \E t \in Threads : Registry_get_or_insert_write(t)
    \/ \E t \in Threads : Registry_get_or_insert_insert(t)
    \/ \E t \in Threads, r \in CallerRefs : Registry_get_or_insert_static_check(t, r)
    \/ \E t \in Threads : Registry_get_or_insert_static_write(t)
    \/ \E t \in Threads : Registry_get_or_insert_static_insert(t)

SpecLookup == Init /\ [][NextLookup]_vars

\* The first accesses to the registry: the process starts with the cell
\* empty, and threads call Registry::global() and intern through it.
InitGlobal ==
    /\ ptr_width \in {32, 64}
    /\ debug_assertions \in BOOLEAN
    /\ ctor_support = TRUE
    /\ mem = [c \in Cells |-> IF c <= NumStatic THEN StaticText[c] ELSE NoText]
    /\ by_string = <<>>
    /\ by_pointer = <<>>
    /\ readers = {}
    /\ writer = NoThread
    /\ pc = [t \in Threads |-> "idle"]
    /\ arg = [t \in Threads |-> NoArg]
    /\ inner = [i \in Sites |-> i]
    /\ initialized = [i \in Sites |-> FALSE]
    /\ ctor = [m \in Modules |-> "pending"]
    /\ writes = [i \in Sites |-> 0]
    /\ poisoned = FALSE
    /\ foreign = [by_string |-> <<>>, by_pointer |-> <<>>]
    /\ lastCall = NoCall
    /\ returned = [s \in Texts |-> {}]
    /\ REGISTRY = Uninit

NextGlobal ==
    \/ \E t \in Threads : Registry_global(t)
    \/ \E t \in Threads : OnceLock_initialize(t)
    \/ \E t \in Threads : Registry_new(t)
    \/ \E t \in Threads : Symbol_new(t)
    \/ \E t \in Threads, s \in Texts : Registry_get_or_insert_check(t, s)
    \/ \E t \in Threads : Registry_get_or_insert_write(t)
    \/ \E t \in Threads : Registry_get_or_insert_insert(t)
    \/ \E t \in Threads, r \in CallerRefs : Registry_get_or_insert_static_check(t, r)
    \/ \E t \in Threads : Registry_get_or_insert_static_write(t)
    \/ \E t \in Threads : Registry_get_or_insert_static_insert(t)

SpecGlobal == InitGlobal /\ [][NextGlobal]_vars

\* Symbol's value semantics: threads intern at run time and, between their
\* calls into the registry, compare, hash and project handles.
NextSymbol ==
    \/ \E t \in Threads : Registry_read(t)
    \/ \E t \in Threads, s \in Texts : Registry_get_or_insert_check(t, s)
    \/ \E t \in Threads : Registry_get_or_insert_write(t)
    \/ \E t \in Threads : Registry_get_or_insert_insert(t)
    \/ \E t \in Threads, r \in CallerRefs : Registry_get_or_insert_static_check(t, r)
    \/ \E t \in Threads : Registry_get_or_insert_static_write(t)
    \/ \E t \in Threads : Registry_get_or_insert_static_insert(t)
    \/ \E t \in Threads, x \in Handles, y \in Handles : Symbol_compare(t, x, y)
    \/ \E t \in Threads, x \in Handles : Symbol_project(t, x)

SpecSymbol == Init /\ [][NextSymbol]_vars

\* The call sites the threads reach in the build without static
\* constructors: two `sym!` sites with the same literal.
LazySites == {TABLE[1][1], TABLE[2][1]}

\* The build without static constructors (Miri, wasm32): no table is
\* registered, every Site is resolved on first use.  The debug-assertions
\* feature changes nothing on this path (the flag exists without it, and
\* the assertion is in get_with_ctor_support only).
InitLazy ==
    /\ ptr_width \in {32, 64}
    /\ debug_assertions = FALSE
    /\ ctor_support = FALSE
    /\ mem = [c \in Cells |-> IF c <= NumStatic THEN StaticText[c] ELSE NoText]
    /\ by_string = <<>>
    /\ by_pointer = <<>>
    /\ readers = {}
    /\ writer = NoThread
    /\ pc = [t \in Threads |-> "idle"]
    /\ arg = [t \in Threads |-> NoArg]
    /\ inner = [i \in Sites |-> i]
    /\ initialized = [i \in Sites |-> FALSE]
    /\ ctor = [m \in Modules |-> "pending"]
    /\ writes = [i \in Sites |-> 0]
    /\ poisoned = FALSE
    /\ foreign = [by_string |-> <<>>, by_pointer |-> <<>>]
    /\ lastCall = NoCall
    /\ returned = [s \in Texts |-> {}]
    /\ REGISTRY = Constructed

NextLazy ==
    \/ \E t \in Threads : Registry_read(t)
    \/ \E t \in Threads, s \in Texts : Registry_get_or_insert_check(t, s)
    \/ \E t \in Threads : Registry_get_or_insert_write(t)
    \/ \E t \in Threads : Registry_get_or_insert_insert(t)
    \/ \E t \in Threads, i \in LazySites : get_without_ctor_support(t, i)
    \/ \E t \in Threads : initialize_atomic_load(t)
    \/ \E t \in Threads : initialize_atomic_read(t)
    \/ \E t \in Threads : initialize_atomic_check(t)
    \/ \E t \in Threads : initialize_atomic_write(t)
    \/ \E t \in Threads : initialize_atomic_insert(t)
    \/ \E t \in Threads : initialize_atomic_store(t)
    \/ \E t \in Threads : initialize_atomic_flag(t)
    \/ \E t \in Threads : get_without_ctor_support_return(t)

SpecLazy == InitLazy /\ [][NextLazy]_vars

\* Reads of Sites in either build: with static constructors (the modules'
\* constructors register their tables, threads read Sites of registered
\* modules) and without (threads resolve Sites on first use), next to
\* threads that intern at run time.
InitResolved == Init \/ InitLazy

NextResolved ==
    \/ \E t \in Threads : Registry_read(t)
    \/ \E t \in Threads, s \in Texts : Registry_get_or_insert_check(t, s)
    \/ \E t \in Threads : Registry_get_or_insert_write(t)
    \/ \E t \in Threads : Registry_get_or_insert_insert(t)
    \/ \E t \in Threads, m \in Modules : ctor_support /\ Registry_register_sites(t, m)
    \/ \E t \in Threads : RegistryWriteGuard_register_sites(t)
    \/ \E t \in Threads : Site_initialize_flag(t)
    \/ \E t \in Threads : Site_initialize_inner(t)
    \/ \E t \in Threads : Registry_register_sites_return(t)
    \/ \E t \in Threads, i \in Sites : Site_get_after_ctor(t, i)
    \/ \E t \in Threads, i \in LazySites : get_without_ctor_support(t, i)
    \/ \E t \in Threads : initialize_atomic_load(t)
    \/ \E t \in Threads : initialize_atomic_read(t)
    \/ \E t \in Threads : initialize_atomic_check(t)
    \/ \E t \in Threads : initialize_atomic_write(t)
    \/ \E t \in Threads : initialize_atomic_insert(t)
    \/ \E t \in Threads : initialize_atomic_store(t)
    \/ \E t \in Threads : initialize_atomic_flag(t)
    \/ \E t \in Threads : get_without_ctor_support_return(t)

SpecResolved == InitResolved /\ [][NextResolved]_vars

\* Reads of Sites next to everything that stores to their slots again: in
\* either build as above, and with static constructors a second call of
\* register_sites for a table whose Sites are in use.
NextStable ==
    \/ NextResolved
    \/ \E t \in Threads, m \in Modules : Registry_register_sites_again(t, m)

SpecStable == InitResolved /\ [][NextStable]_vars

\* Interning one call at a time and interning through a held write guard:
\* threads call Registry::get_or_insert / get_or_insert_static, or take
\* Registry::write() and call the guard's get_or_insert /
\* get_or_insert_static any number of times before they drop it.
NextGuard ==
    \/ \E t \in Threads : Registry_read(t)
    \/ \E t \in Threads, s \in Texts : Registry_get_or_insert_check(t, s)
    \/ \E t \in Threads : Registry_get_or_insert_write(t)
    \/ \E t \in Threads : Registry_get_or_insert_insert(t)
    \/ \E t \in Threads, r \in CallerRefs : Registry_get_or_insert_static_check(t, r)
    \/ \E t \in Threads : Registry_get_or_insert_static_write(t)
    \/ \E t \in Threads : Registry_get_or_insert_static_insert(t)
    \/ \E t \in Threads : Registry_write(t)
    \/ \E t \in Threads, s \in Texts : RegistryWriteGuard_get_or_insert(t, s)
    \/ \E t \in Threads, r \in CallerRefs : RegistryWriteGuard_get_or_insert_static(t, r)
    \/ \E t \in Threads : RegistryWriteGuard_drop(t)

SpecGuard == Init /\ [][NextGuard]_vars

\* ------------------------------------------------------------------- claims

\* The interning calls whose results lastCall reports.
InternOps == {"get_or_insert", "get_or_insert_static"}

\* C1: dedup across every interning path.  For every text s, all the
\* Symbols ever returned for s (by Symbol::new / Registry::get_or_insert, by
\* Symbol::new_static / Registry::get_or_insert_static, by the write guard's
\* get_or_insert_static inside register_sites, and by reading a resolved
\* Site) are equal to one another.
C1_Dedup ==
    \A s \in Texts : \A x, y \in returned[s] : Symbol_eq(x, y)

\* C1 witness: a read of a resolved Site returns the Symbol that
\* Symbol::new interned first (its cell is on the heap), after the Site's
\* static constructor met the text already interned.
C1_Witness ==
    /\ lastCall.op = "sym"
    /\ lastCall.res \in HeapCells
    /\ lastCall.res \in returned[StaticText[lastCall.arg]]

\* The text an interning call was made for.
CallText == IF lastCall.op = "get_or_insert" THEN lastCall.arg
            ELSE mem[lastCall.arg]

\* C2: concurrent insertion convergence.  Every call of get_or_insert or
\* get_or_insert_static that returns from under the write lock (its
\* optimistic lookup missed) returns the Symbol every other call returned
\* for that text, and leaves exactly one entry for the text: the store
\* holds one by_string entry and one by_pointer entry per interned text,
\* whatever the interleaving of lookups, guard drops and write locks.
C2_Convergence ==
    (lastCall.op \in InternOps /\ lastCall.via \in {"recheck", "insert"}) =>
        /\ \A x \in returned[CallText] : Symbol_eq(x, lastCall.res)
        /\ CallText \in DOMAIN by_string
        /\ Cardinality(AddressEntries(CallText)) = 1
        /\ Store_len = Cardinality({u \in Texts : returned[u] # {}})

\* C2 witness: two get_or_insert calls raced for one text.  The call that
\* returns here missed in its optimistic lookup, and by the time it held
\* the write lock the other call had inserted the text (a heap copy).
C2_Witness ==
    /\ lastCall.op = "get_or_insert"
    /\ lastCall.via = "recheck"
    /\ lastCall.res \in HeapCells
    /\ Store_len = 1

\* Every Symbol handed out so far.
Handed == UNION {returned[s] : s \in Texts}

\* C3: distinct texts get distinct Symbols.  For all texts s # u, no Symbol
\* returned for s is equal to a Symbol returned for u; so interning a, b, a
\* yields [h1, h2, h1] with h1 # h2.
C3_Distinct ==
    \A s, u \in Texts : s # u =>
        \A x \in returned[s], y \in returned[u] : ~Symbol_eq(x, y)

\* C3 witness: "a" is interned again after "a" and "b" were, and the call
\* returns the Symbol of the first "a".
C3_Witness ==
    /\ lastCall.op = "get_or_insert"
    /\ lastCall.arg = "a"
    /\ lastCall.via = "read"
    /\ returned["a"] = {lastCall.res}
    /\ returned["b"] # {}

\* C4: FFI round-trip law.  In every reachable state, for every Symbol x
\* handed out so far, the validated reconstruction of x.to_ffi() finds x;
\* and every call of get_by_address (Symbol::try_from_ffi) made with the
\* to_ffi() of such an x returns Some(y) with y == x.
C4_RoundTrip ==
    /\ \A x \in Handed :
           /\ Store_get_by_address(Symbol_to_ffi(x)) # NoSymbol
           /\ Symbol_eq(Store_get_by_address(Symbol_to_ffi(x)), x)
    /\ lastCall.op = "get_by_address" =>
           \A x \in Handed : lastCall.arg = Symbol_to_ffi(x) =>
               /\ lastCall.res # NoSymbol
               /\ Symbol_eq(lastCall.res, x)

\* C4 witness: on a 64-bit target, try_from_ffi returns the Symbol whose
\* to_ffi() it was given; the Symbol's cell lies above 4 GiB.
C4_Witness ==
    /\ lastCall.op = "get_by_address"
    /\ lastCall.res \in Handed
    /\ lastCall.arg = Symbol_to_ffi(lastCall.res)
    /\ lastCall.arg.hi = 1

\* C5: validated reconstruction rejects garbage.  Whatever the pointer
\* width, get_by_address (Symbol::try_from_ffi) returns Some only for a
\* 64-bit value that is the to_ffi() of a Symbol in the registry.
C5_RejectsGarbage ==
    (lastCall.op = "get_by_address" /\ lastCall.res # NoSymbol) =>
        \E x \in Registered : lastCall.arg = Symbol_to_ffi(x)

\* C6: lookup result.  Registry::get(s) / Symbol::get(s) returns None when
\* s was never interned, and otherwise Some(x) with x equal to the Symbol
\* interning returned for s.
C6_Lookup ==
    lastCall.op = "get" =>
        IF returned[lastCall.arg] = {}
        THEN lastCall.res = NoSymbol
        ELSE /\ lastCall.res # NoSymbol
             /\ \A x \in returned[lastCall.arg] : Symbol_eq(lastCall.res, x)

\* C6 witness: a lookup of an interned text returns its Symbol while
\* another text has never been interned.
C6_Witness ==
    /\ lastCall.op = "get"
    /\ lastCall.res \in returned[lastCall.arg]
    /\ \E s \in Texts : returned[s] = {} /\ Store_get(s) = NoSymbol

\* C7: text preservation.  Every Symbol returned for a text s (by interning
\* s at run time or by reading a resolved Site whose literal is s) has
\* as_str() = s, in every later state.
C7_Text ==
    \A s \in Texts : \A x \in returned[s] : Symbol_as_str(x) = s

\* C7 witness: Symbol::new leaked a copy of the text, and a later call
\* returns that Symbol with the text it was interned for.
C7_Witness ==
    /\ lastCall.op \in InternOps
    /\ lastCall.via = "read"
    /\ lastCall.res \in HeapCells
    /\ Symbol_as_str(lastCall.res) = CallText

\* C8: entries are permanent.  No step removes or replaces an entry of
\* either map; after every step each Symbol handed out for s is still what
\* a lookup of s and a get_by_address of its to_ffi() find, and the number
\* of registered symbols does not decrease.
C8_Permanent ==
    [][/\ \A s \in DOMAIN by_string :
              s \in DOMAIN by_string' /\ by_string'[s] = by_string[s]
       /\ \A a \in DOMAIN by_pointer :
              a \in DOMAIN by_pointer' /\ by_pointer'[a] = by_pointer[a]
       /\ \A s \in Texts : \A x \in returned[s] :
              /\ Store_get(s)' = x
              /\ Store_get_by_address(Symbol_to_ffi(x))' = x
       /\ Store_len' >= Store_len]_vars

\* C8 witness: the entry Symbol::new made for "a" is still the one found
\* after both modules registered their Sites (two of them with the literal
\* "a") and "b" was interned.
C8_Witness ==
    /\ \A m \in Modules : ctor[m] = "done"
    /\ Store_len = 2
    /\ Store_get("a") \in HeapCells
    /\ Store_get("a") \in returned["a"]

\* C9: static storage reuse.  A call of Registry::get_or_insert_static(r)
\* whose text is not interned when it looks under the write lock returns
\* the Symbol whose address is r and enters r in both maps; a call whose
\* text is already interned returns the earlier entry's Symbol and changes
\* neither map.
C9_StaticReuse ==
    [][lastCall'.op = "get_or_insert_static" =>
          LET r == lastCall'.arg
              s == mem[r]
          IN IF s \in DOMAIN by_string
             THEN /\ lastCall'.res = by_string[s]
                  /\ by_pointer' = by_pointer
                  /\ by_string' = by_string
             ELSE /\ Symbol_as_ptr(lastCall'.res) = AddressOf(r)
                  /\ by_string' = (s :> r) @@ by_string
                  /\ by_pointer' = (SymbolStr_address(r) :> r) @@ by_pointer]_vars

\* C9 witness: both cases happened to one reference's text.  The call
\* returns the Symbol of an earlier entry that is another static reference
\* (a Site's literal), and its own reference is in neither map.
C9_Witness ==
    /\ lastCall.op = "get_or_insert_static"
    /\ lastCall.res \in Sites
    /\ lastCall.res # lastCall.arg
    /\ SymbolStr_address(lastCall.arg) \notin DOMAIN by_pointer
    /\ \E s \in Texts : Store_get(s) \in CallerRefs

\* C10: eager resolution.  Once register_sites(table) has returned, every
\* Site of the table holds the Symbol the registry has for the Site's
\* literal and, where the flag exists, its flag is set; reading the Site
\* (sym!, or a StaticSymbol's deref) yields that Symbol.
C10_Eager ==
    /\ \A m \in Modules : ctor[m] = "done" =>
           \A k \in 1..Len(TABLE[m]) :
               LET i == TABLE[m][k]
               IN /\ Store_get(StaticText[i]) # NoSymbol
                  /\ Symbol_eq(Symbol_new_unchecked(inner[i]),
                               Store_get(StaticText[i]))
                  /\ HasInitialized => initialized[i]
    /\ lastCall.op = "sym" =>
           /\ lastCall.via = "slot"
           /\ lastCall.res # NoSymbol
           /\ Symbol_eq(lastCall.res, Store_get(StaticText[lastCall.arg]))

\* C10 witness: register_sites has just returned for the table of two
\* Sites, in a build that has the flag; one of the Sites was resolved to a
\* Symbol interned before, not to its own literal.
C10_Witness ==
    /\ lastCall.op = "register_sites"
    /\ Len(TABLE[lastCall.arg]) = 2
    /\ HasInitialized
    /\ \E k \in 1..2 : inner[TABLE[lastCall.arg][k]] # TABLE[lastCall.arg][k]
    /\ \A k \in 1..2 : initialized[TABLE[lastCall.arg][k]]

\* C11: lazy-path convergence.  In the build without static constructors,
\* every access of a Site through get_without_ctor_support, whatever the
\* interleaving of the threads, returns the registry's Symbol for the Site's
\* literal, equal to every Symbol returned for that text before, and the
\* registry holds exactly one entry for the text.
C11_LazyConvergence ==
    lastCall.op = "sym" =>
        LET s == StaticText[lastCall.arg]
        IN /\ lastCall.res # NoSymbol
           /\ Store_get(s) # NoSymbol
           /\ Symbol_eq(lastCall.res, Store_get(s))
           /\ \A x \in returned[s] : Symbol_eq(x, lastCall.res)
           /\ Cardinality(AddressEntries(s)) = 1

\* C11 witness: two threads found the flag of one Site unset and both ran
\* initialize_atomic on it; the access that returns here is the second to
\* have stored, and the Symbol is not the Site's own literal.
C11_Witness ==
    /\ lastCall.op = "sym"
    /\ lastCall.via = "initialize_atomic"
    /\ writes[lastCall.arg] >= 2
    /\ lastCall.res # lastCall.arg

\* C12: exactly-once Site transition.  The slot of every Site is stored to
\* at most once over its lifetime: by the Startup Initializer, or by the one
\* thread that wins the race on the fallback path; no second store to the
\* slot ever happens.
C12_ExactlyOnce ==
    \A i \in Sites : writes[i] <= 1

\* The calls of register_sites made so far for the table of module m.
Passes(m) == CASE ctor[m] = "pending" -> 0
               [] ctor[m] \in {"running", "done"} -> 1
               [] OTHER -> 2

\* C12, amended: the value of every Site's slot changes at most once, from
\* the reference to its literal to the registry's Symbol for that literal.
\* Every store to the slot stores that Symbol; on the fallback path each
\* thread that found the flag unset stores once, so a slot is stored to at
\* most once per thread, and with static constructors at most once by each
\* call of register_sites for its table.
C12_SingleTransition ==
    [][\A i \in Sites :
           /\ writes'[i] <= Cardinality(Threads)
           /\ ctor_support => writes'[i] <= Passes(ModuleOf(i))'
           /\ inner'[i] # inner[i] => writes[i] = 0 /\ inner[i] = i
           /\ writes'[i] > writes[i] =>
                  /\ Store_get(StaticText[i]) # NoSymbol
                  /\ inner'[i] = Symbol_inner(Store_get(StaticText[i]))]_vars

\* C12 witness: a Site's slot was stored to twice, by two threads that both
\* found the flag unset, and holds a Symbol that is not its own literal.
C12_Witness ==
    \E i \in LazySites :
        /\ writes[i] = 2
        /\ initialized[i]
        /\ inner[i] # i
        /\ inner[i] = Store_get(StaticText[i])

\* C13: startup protocol idempotence.  While register_sites runs a second
\* time on a table that was registered, no step changes by_string or
\* by_pointer (so len is unchanged at its return) and every Site of the
\* table keeps the Symbol the first pass left in it.
C13_Idempotent ==
    [][\A m \in Modules : ctor[m] = "rerunning" =>
           /\ by_string' = by_string
           /\ by_pointer' = by_pointer
           /\ Store_len' = Store_len
           /\ \A k \in 1..Len(TABLE[m]) :
                  inner'[TABLE[m][k]] = inner[TABLE[m][k]]]_vars

\* C13 witness: the second register_sites of the table of two Sites has
\* returned; each of its Sites was stored to twice, and one of them holds a
\* Symbol whose reference another module's Site supplied.
C13_Witness ==
    /\ lastCall.op = "register_sites"
    /\ ctor[lastCall.arg] = "done_twice"
    /\ \A k \in 1..Len(TABLE[lastCall.arg]) : writes[TABLE[lastCall.arg][k]] = 2
    /\ \E k \in 1..Len(TABLE[lastCall.arg]) :
           inner[TABLE[lastCall.arg][k]] # TABLE[lastCall.arg][k]

\* C14: cross-module sharing.  When the modules register their tables with
\* the one registry, in either order, Sites of different modules with the
\* same literal hold equal Symbols once both constructors have run, and a
\* read of one of them returns a Symbol equal to the other's.
C14_CrossModule ==
    \A i, j \in Sites :
        (/\ ModuleOf(i) # ModuleOf(j)
         /\ StaticText[i] = StaticText[j]
         /\ CtorHasRun(ModuleOf(i))
         /\ CtorHasRun(ModuleOf(j))) =>
            /\ Symbol_eq(Symbol_new_unchecked(inner[i]),
                         Symbol_new_unchecked(inner[j]))
            /\ (lastCall.op = "sym" /\ lastCall.arg = i) =>
                   Symbol_eq(lastCall.res, Symbol_new_unchecked(inner[j]))

\* C14 witness: the constructor of the second module ran before the first
\* module's; a read of the first module's Site returns the Symbol whose
\* reference is the literal of the second module's Site.
C14_Witness ==
    /\ \A m \in Modules : CtorHasRun(m)
    /\ lastCall.op = "sym"
    /\ ModuleOf(lastCall.arg) = 1
    /\ lastCall.res = TABLE[2][1]
    /\ inner[TABLE[2][1]] = TABLE[2][1]

SharedRefs == CallerRefs \cap ForeignRefs

C16_Identity ==
    lastCall.op = "compare" =>
        LET x == lastCall.arg[1]
            y == lastCall.arg[2]
        IN /\ lastCall.res.eq <=> (x = y)
           /\ lastCall.res.eq <=> (Symbol_to_ffi(x) = Symbol_to_ffi(y))
           /\ (/\ x # y
               /\ Symbol_as_str(x) = Symbol_as_str(y)
               /\ x \notin Registered
               /\ y \notin Registered) => ~lastCall.res.eq

\* Two references outside the registry with the same text were compared.
C16_Witness ==
    /\ lastCall.op = "compare"
    /\ lastCall.arg[1] # lastCall.arg[2]
    /\ Symbol_as_str(lastCall.arg[1]) = Symbol_as_str(lastCall.arg[2])
    /\ lastCall.arg[1] \notin Registered
    /\ lastCall.arg[2] \notin Registered
    /\ Store_get(Symbol_as_str(lastCall.arg[1])) # NoSymbol
    /\ ~lastCall.res.eq

\* C17: hash and order follow the address.  Equal Symbols have the same
\* hash and compare Equal under Ord, Ord yields Equal only for equal
\* Symbols, and a map keyed by Symbol holds one entry per distinct Symbol:
\* after inserting two Symbols the registry returned for one text it holds
\* exactly one entry, with the value inserted last.
C17_HashOrdFollowAddress ==
    lastCall.op = "compare" =>
        LET x == lastCall.arg[1]
            y == lastCall.arg[2]
            r == lastCall.res
        IN /\ r.eq => r.hash[1] = r.hash[2] /\ r.cmp = "Equal"
           /\ r.cmp = "Equal" => r.eq
           /\ Cardinality(r.map) = IF r.eq THEN 1 ELSE 2
           /\ (\E s \in Texts : {x, y} \subseteq returned[s])
                  => r.map = {[key |-> Symbol_new_unchecked(x), value |-> 2]}

\* Two Symbols the registry returned for one text were compared, hashed and
\* inserted in a map, after a leaked copy of the text had been interned.
C17_Witness ==
    /\ lastCall.op = "compare"
    /\ \E s \in Texts : /\ lastCall.arg[1] \in returned[s]
                        /\ lastCall.arg[2] \in returned[s]
                        /\ lastCall.arg[1] \in HeapCells
    /\ lastCall.res.eq
    /\ lastCall.res.cmp = "Equal"
    /\ Cardinality(lastCall.res.map) = 1

\* C20: Symbol's accessors take no lock.  A thread outside the registry can
\* always compare, order, hash and project a handle, whoever holds the
\* registry's lock, and doing so changes neither the store nor the lock.
C20_AccessorsLockFree ==
    /\ [](\A t \in Threads, x \in Handles :
              pc[t] = "idle" => /\ ENABLED Symbol_project(t, x)
                                /\ ENABLED Symbol_compare(t, x, x))
    /\ [][lastCall'.op \in {"compare", "project"}
              => /\ UNCHANGED <<store, lock, sites, poisoned>>
                 /\ lastCall'.op = "project"
                        => /\ lastCall'.res.as_str = mem[lastCall'.arg]
                           /\ lastCall'.res.to_ffi = AsU64(AsUsize(AddressOf(lastCall'.arg)))]_vars

\* An accessor returned to one thread while another held the write guard.
C20_Witness ==
    /\ lastCall.op = "project"
    /\ writer # NoThread
    /\ pc[writer] # "idle"
    /\ lastCall.arg \in Registered
    /\ lastCall.res.as_str = mem[lastCall.arg]

\* C18: the debug assertion on uninitialized Sites.  In the eager
\* configuration with the debug-assertions feature, a read of a Site whose
\* flag is not set, as it is for every Site of a module whose Startup
\* Initializer never ran, ends in the assertion failure and returns no
\* Symbol; a read of a Site whose flag is set passes the assertion and
\* returns a Symbol.
C18_DebugAssertion ==
    (lastCall.op = "sym" /\ ctor_support /\ debug_assertions) =>
        /\ ~initialized[lastCall.arg]
               => lastCall.via = "panic" /\ lastCall.res = NoSymbol
        /\ ctor[ModuleOf(lastCall.arg)] = "pending"
               => lastCall.via = "panic" /\ lastCall.res = NoSymbol
        /\ initialized[lastCall.arg]
               => lastCall.via = "slot" /\ lastCall.res # NoSymbol

\* A Site of a module whose constructor has not run was read and the
\* assertion failed, after the other module's Sites had been registered.
C18_Witness ==
    /\ debug_assertions
    /\ lastCall.op = "sym"
    /\ lastCall.via = "panic"
    /\ ctor[ModuleOf(lastCall.arg)] = "pending"
    /\ ~initialized[lastCall.arg]
    /\ \E m \in Modules : ctor[m] = "done"

\* C19: a poisoned lock stays usable.  After a thread has panicked while
\* holding a read or write guard, the lock is not held on its behalf, and
\* Registry::read and Registry::write still hand out a guard under the
\* ordinary rules of a reader-writer lock (read when nobody writes, write
\* when nobody holds the lock), so get, get_or_insert and get_by_address
\* keep returning, with the results of an intact store.
C19_PoisonedLockUsable ==
    /\ \A t \in Threads : pc[t] = "panicked" => t \notin readers /\ writer # t
    /\ writer # NoThread => pc[writer] \notin {"idle", "panicked"}
    /\ \A t \in readers : pc[t] \notin {"idle", "panicked"}
    /\ \A t \in Threads :
           (pc[t] = "idle" /\ writer = NoThread) => ENABLED Registry_read(t)
    /\ \A t \in Threads :
           (pc[t] = "get_or_insert_miss" /\ writer = NoThread /\ readers = {})
               => ENABLED Registry_get_or_insert_write(t)
    /\ (poisoned /\ lastCall.op = "get_or_insert")
           => /\ lastCall.res # NoSymbol
              /\ lastCall.res = Store_get(lastCall.arg)
    /\ (poisoned /\ lastCall.op = "get")
           => lastCall.res = Store_get(lastCall.arg)

\* After one thread panicked under the write guard, another thread's
\* get_or_insert took the read and the write guard and inserted.
C19_Witness ==
    /\ poisoned
    /\ \E t \in Threads : pc[t] = "panicked"
    /\ lastCall.op = "get_or_insert"
    /\ lastCall.via = "insert"
    /\ lastCall.res = Store_get(lastCall.arg)

Resolved(i) ==
    IF ctor_support THEN CtorHasRun(ModuleOf(i)) ELSE initialized[i]

C23_FlagImpliesResolved ==
    \A i \in Sites :
        initialized[i] =>
            /\ Store_get(StaticText[i]) # NoSymbol
            /\ inner[i] = Symbol_inner(Store_get(StaticText[i]))

\* C24: the first committed insertion wins.  A call of get_or_insert or
\* get_or_insert_static that returns when its text is not yet in the store
\* has inserted under the write lock, and its Symbol is the store's Symbol
\* for the text from then on; a call that returns when the text is in the
\* store returns that Symbol, also when its own optimistic lookup had missed
\* and whatever reference it brought; so all Symbols returned for a text are
\* the one of the first insertion.
C24_FirstCommitWins ==
    [][/\ \A s \in Texts :
              Store_get(s) # NoSymbol => Store_get(s)' = Store_get(s)
       /\ lastCall'.op \in InternOps =>
              \E s \in Texts :
                  /\ s = CallText'
                  /\ IF Store_get(s) = NoSymbol
                     THEN /\ lastCall'.via = "insert"
                          /\ writer # NoThread
                          /\ Store_get(s)' = lastCall'.res
                     ELSE /\ lastCall'.via # "insert"
                          /\ lastCall'.res = Store_get(s)
                  /\ returned'[s] = {Store_get(s)'}]_vars

\* A call of get_or_insert_static missed in its optimistic lookup and then,
\* under the write lock, found the text inserted by a call that had brought
\* another static reference: it returns the winner's reference.
C24_Witness ==
    /\ lastCall.op = "get_or_insert_static"
    /\ lastCall.via = "recheck"
    /\ lastCall.res \in RaceRefs
    /\ lastCall.res # lastCall.arg
    /\ returned[mem[lastCall.arg]] = {lastCall.res}

\* C25: the two indexes of the store agree.  In every state by_string and
\* by_pointer have the same number of entries; each key k of by_string is
\* filed under its text and has by_pointer[address(k)] = k; each value of
\* by_pointer is a key of by_string, filed under its own address; no two
\* keys hold the same text and no two keys have the same address.
C25_IndexAgreement ==
    /\ Cardinality(DOMAIN by_string) = Cardinality(DOMAIN by_pointer)
    /\ \A s \in DOMAIN by_string :
           /\ mem[by_string[s]] = s
           /\ SymbolStr_address(by_string[s]) \in DOMAIN by_pointer
           /\ by_pointer[SymbolStr_address(by_string[s])] = by_string[s]
    /\ \A a \in DOMAIN by_pointer :
           /\ by_pointer[a] \in Registered
           /\ SymbolStr_address(by_pointer[a]) = a
    /\ \A k, l \in Registered :
           (mem[k] = mem[l] \/ SymbolStr_address(k) = SymbolStr_address(l))
               => k = l

\* Both kinds of key are in the store: a leaked copy and a static
\* reference, after a module registered its table.
C25_Witness ==
    /\ Store_len = 2
    /\ Cardinality(DOMAIN by_pointer) = 2
    /\ \E k \in Registered : k \in HeapCells
    /\ \E k \in Registered : k \in Sites
    /\ \E m \in Modules : ctor[m] = "done"
    /\ writer = NoThread

\* C26: no partial insertion is observable after a panic.  Whenever the
\* write guard is not held (so that a reader can look), also after a writer
\* panicked inside an insertion and the poisoned lock was recovered, every
\* text entry of by_string has its entry in by_pointer and every entry of
\* by_pointer has its text entry in by_string.
C26_NoPartialInsertion ==
    writer = NoThread =>
        /\ \A s \in DOMAIN by_string :
               /\ SymbolStr_address(by_string[s]) \in DOMAIN by_pointer
               /\ by_pointer[SymbolStr_address(by_string[s])] = by_string[s]
        /\ \A a \in DOMAIN by_pointer : by_pointer[a] \in Registered

\* A thread is outside the registry: in no call and holding no guard.
Outside(t) == pc[t] \in {"idle", "exited"}

\* A thread waits in write() called while it holds a read guard itself.
HoldsOwnReadGuard(t) == pc[t] = "get_or_insert_miss" /\ t \in readers

MissStates == {"get_or_insert_miss", "get_or_insert_static_miss"}

\* C28: the optimistic read path.  A call of get_or_insert or
\* get_or_insert_static whose lookup under the read lock finds the text
\* returns the existing Symbol then and there, with no write guard taken
\* and the store unchanged; a call goes on towards the write lock only if
\* that lookup found nothing, and it takes the write lock only from there,
\* after its read guard was dropped.
C28_OptimisticRead ==
    [][\A t \in Threads :
          /\ (pc[t] = "read" /\ pc'[t] = "idle" /\ lastCall'.op \in InternOps) =>
                 /\ lastCall'.via = "read"
                 /\ lastCall'.res # NoSymbol
                 /\ \E s \in Texts : s = CallText' /\ lastCall'.res = Store_get(s)
                 /\ writer = NoThread /\ writer' = NoThread
                 /\ UNCHANGED store
          /\ (pc[t] = "read" /\ pc'[t] \in MissStates) =>
                 /\ \E s \in Texts :
                        /\ s = IF pc'[t] = "get_or_insert_miss"
                               THEN arg'[t] ELSE mem[arg'[t]]
                        /\ Store_get(s) = NoSymbol
                 /\ t \notin readers'
          /\ (writer' = t /\ writer # t) =>
                 /\ pc[t] \in MissStates
                 /\ t \notin readers
                 /\ readers = {}]_vars

\* A call of get_or_insert_static found its text interned under the read
\* lock (by a call that had brought another reference) and returned that
\* Symbol; nobody holds the write guard.
C28_Witness ==
    /\ lastCall.op = "get_or_insert_static"
    /\ lastCall.via = "read"
    /\ lastCall.res # lastCall.arg
    /\ lastCall.res = Store_get(mem[lastCall.arg])
    /\ writer = NoThread

\* The threads inside a section entered through Registry::read.
ReadHolders == {t \in Threads : pc[t] = "read"}

\* The threads inside a section entered through Registry::write.
WriteHolders ==
    {t \in Threads : pc[t] \in {"get_or_insert_write", "get_or_insert_static_write"}}

\* C29: reader-writer exclusion.  At most one thread is inside a section
\* entered through write(), and then no thread is inside one entered through
\* read(); the lock's record of its holders is exactly these threads; and
\* the store changes only in a step of the thread holding the write guard,
\* never while a read guard is held.
C29_Exclusion ==
    /\ [](/\ Cardinality(WriteHolders) <= 1
          /\ WriteHolders # {} => ReadHolders = {}
          /\ readers = ReadHolders
          /\ WriteHolders = IF writer = NoThread THEN {} ELSE {writer})
    /\ [][/\ readers # {} => UNCHANGED store
          /\ store' # store => /\ writer \in WriteHolders
                               /\ pc'[writer] # pc[writer]]_vars

\* Two threads hold read guards at once, over a store that holds a Symbol.
C29_Witness ==
    /\ Cardinality(readers) >= 2
    /\ Cardinality(ReadHolders) >= 2
    /\ writer = NoThread
    /\ Store_len >= 1

\* The positions of a thread inside Registry::register_sites.
RegisterStates == {"register_sites", "initialize", "initialize_inner"}

\* The threads inside Registry::register_sites.
Registering == {t \in Threads : pc[t] \in RegisterStates}

\* C30: bulk registration is one critical section.  A thread inside
\* register_sites holds the write guard from its first step to its return:
\* it takes the lock in the step that enters, keeps it over every Site of the
\* table, and drops it in the step that returns; meanwhile no other thread
\* holds a guard, completes a lookup or an insertion, or changes the store.
C30_OneCriticalSection ==
    /\ [](\A t \in Registering : writer = t /\ readers = {})
    /\ [][\A t \in Threads :
             /\ (t \in Registering /\ pc'[t] \in RegisterStates) =>
                    /\ writer' = t
                    /\ readers' = {}
                    /\ lastCall'.op \in {"none", "sym"}
                    /\ \A u \in Threads \ {t} :
                           pc'[u] # pc[u] => UNCHANGED <<store, inner, initialized>>
             /\ (t \notin Registering /\ pc'[t] \in RegisterStates) =>
                    /\ pc'[t] = "register_sites"
                    /\ writer = NoThread /\ readers = {} /\ writer' = t
             /\ (t \in Registering /\ pc'[t] \notin RegisterStates) =>
                    /\ arg[t].next > Len(TABLE[arg[t].table])
                    /\ writer' = NoThread]_vars

\* Between the resolution of two Sites of one table: the registering thread
\* has resolved the first Site, and another thread's insertion waits for
\* the write lock.
C30_Witness ==
    \E t \in Registering :
        /\ pc[t] = "register_sites"
        /\ Len(TABLE[arg[t].table]) >= 2
        /\ arg[t].next = 2
        /\ writer = t
        /\ \E u \in Threads : pc[u] = "get_or_insert_static_miss"

\* The operations that only look.
LookupOps == {"get", "get_by_address", "len"}

\* C31: lookups have no effect on the store.  A step in which get
\* (Symbol::get), get_by_address (Symbol::try_from_ffi), len or is_empty
\* returns leaves the memory and both indexes as they were, on a hit and
\* on a miss; after a miss the text, respectively the address, is still
\* not registered; and len reports the size of the unchanged store.
C31_LookupsFrame ==
    [][lastCall'.op \in LookupOps =>
          /\ mem' = mem
          /\ by_string' = by_string
          /\ by_pointer' = by_pointer
          /\ returned' = returned
          /\ (lastCall'.op = "get" /\ lastCall'.res = NoSymbol)
                 => \E s \in Texts : /\ s = lastCall'.arg
                                     /\ s \notin DOMAIN by_string'
          /\ (lastCall'.op = "get_by_address" /\ lastCall'.res = NoSymbol)
                 => \E v \in U64Values : /\ v = lastCall'.arg
                                         /\ AsUsize(v) \notin DOMAIN by_pointer'
          /\ lastCall'.op = "len"
                 => /\ lastCall'.res = Cardinality(DOMAIN by_string')
                    /\ (lastCall'.via = "is_empty") <=> (by_string' = <<>>)]_vars

\* A get missed on a store that holds another text, and the store still
\* holds exactly that one entry in each index.
C31_Witness ==
    /\ lastCall.op = "get"
    /\ lastCall.res = NoSymbol
    /\ Store_len = 1
    /\ Cardinality(DOMAIN by_pointer) = 1
    /\ Store_get(lastCall.arg) = NoSymbol

\* C32: single registry instance.  Registry::new runs at most once, also
\* when several threads make the first access together; every call of
\* Registry::global() returns the Registry held by the cell, which is the
\* same one for every call of every thread; the cell's value never changes
\* once set; and every step that changes the store is taken with that one
\* Registry constructed.
C32_SingleRegistry ==
    /\ [](/\ REGISTRY.constructed <= 1
          /\ Cardinality(REGISTRY.handed) <= 1
          /\ REGISTRY.handed \subseteq {REGISTRY.value} \ {0}
          /\ (REGISTRY.state = "complete") <=> (REGISTRY.value # 0)
          /\ REGISTRY.state # "complete" => by_string = <<>> /\ by_pointer = <<>>)
    /\ [][/\ REGISTRY.value # 0 => REGISTRY'.value = REGISTRY.value
          /\ lastCall'.op = "global" => lastCall'.res = REGISTRY'.value
          /\ store' # store => REGISTRY.state = "complete" /\ REGISTRY.constructed = 1]_vars

\* Two threads made the first access together: one ran Registry::new, the
\* other waited in get_or_init and has now returned the same Registry, and
\* a text has been interned through it.
C32_Witness ==
    /\ lastCall.op = "global"
    /\ lastCall.via = "wait"
    /\ lastCall.res = 1
    /\ REGISTRY.constructed = 1
    /\ by_string # <<>>

\* C33: no racing plain read on the lazy path.  Every store to a Site's
\* slot by initialize_atomic happens before the Site's flag is first set:
\* no step stores to the slot of a Site whose flag is set, and in
\* particular no step that follows a non-atomic read of a Site (a read
\* returned by get_without_ctor_support) stores to that Site's slot.
C33_NoStoreAfterFlag ==
    [][\A i \in LazySites :
          /\ initialized[i] => writes'[i] = writes[i]
          /\ (lastCall.op = "sym" /\ lastCall.arg = i)
                 => writes'[i] = writes[i]]_vars

\* The values a read of Site i can return in the current state.
Site_read(i) ==
    IF ctor_support THEN Site_inner_get(i) ELSE Site_inner_load(i)

\* C34: Site reads are stable.  Once a Site is Resolved for its readers it
\* stays so; a read of it can return one value only, the registry's Symbol
\* for the Site's literal, and that value is the same after every step (a
\* second pass of register_sites and a late store of initialize_atomic
\* included); and every read that returns gives the one Symbol that every
\* earlier read of the Site gave.
C34_StableReads ==
    [][\A i \in Sites :
          /\ Resolved(i) =>
                 /\ Resolved(i)'
                 /\ Site_read(i)' = Site_read(i)
                 /\ Site_read(i) = {Symbol_inner(Store_get(StaticText[i]))}
                 /\ Store_get(StaticText[i]) # NoSymbol
          /\ (lastCall'.op = "sym" /\ lastCall'.arg = i /\ lastCall'.via # "panic")
                 => /\ Resolved(i)
                    /\ lastCall'.res \in {Symbol_new_unchecked(x) : x \in Site_read(i)}
                    /\ returned'[StaticText[i]] = {lastCall'.res}]_vars

\* A Site whose slot has been stored to twice (by a second register_sites,
\* or by a late initialize_atomic) with a Symbol that is not the Site's own
\* literal has been read, and the read gave the Symbol returned before.
C34_Witness ==
    /\ lastCall.op = "sym"
    /\ lastCall.via = "slot"
    /\ writes[lastCall.arg] = 2
    /\ Symbol_inner(lastCall.res) # lastCall.arg
    /\ returned[StaticText[lastCall.arg]] = {lastCall.res}

====
